---- MODULE Spec2Model ----
(***************************************************************************)
(* Model of the e-ink image cache (ImageCacheManager) and of the          *)
(* conversion pipeline that uses it (Display._convert_png_auto) in         *)
(* distiller_cm5_sdk/hardware/eink/display.py.                             *)
(*                                                                         *)
(* Strings that the code inspects character-wise (paths) are modelled as   *)
(* sequences of tokens, so that str.startswith is a prefix test on the     *)
(* token sequence.  A fingerprint (sha256 of the JSON of the key data) is  *)
(* modelled by the key data itself: the hash is taken to be injective.     *)
(***************************************************************************)
EXTENDS Integers, Sequences, FiniteSets, TLC

VARIABLES
    max_size,     \* ImageCacheManager.max_size
    persist_path, \* ImageCacheManager.persist_path ("" = not configured)
    cache,        \* ImageCacheManager._cache: insertion-ordered dict, as a sequence of [key, entry]
    temp_files,   \* ImageCacheManager._temp_files: dict key -> temp path
    files,        \* the files that exist on disk (temp files and other artifacts)
    snapshot,     \* the content of the file at persist_path
    src_mtime,    \* source image -> modification time, NoFile when it does not exist
    next_tmp,     \* how many names tempfile.mkstemp has handed out
    th,           \* per thread: its position inside _convert_png_auto
    phase,        \* "new" before ImageCacheManager.__init__ has run, then "ready",
                  \* or "failed" when __init__ raised
    sam,          \* the SAM object: its fields, the serial line and its threads' positions
    last          \* history: the last step's operation and what it returned (for put: the
                  \* temp path of the entry it evicted)

vars == <<max_size, persist_path, cache, temp_files, files, snapshot, src_mtime,
          next_tmp, th, phase, sam, last>>

----------------------------------------------------------------------------
(* Bounds of the model *)

MaxSize == 2
MaxTmp == 3
MaxSnap == 2
MaxLockTmp == 2
MaxPathLen == 3
MaxDim == 3
MaxBytes == 2
MaxSide == 4
MaxCallbacks == 2
MaxPixels == 9
\* LED commands written to the module and not yet completed by it
MaxTasks == 2
\* the landscape size _display_png passes to the transforms, scaled down from 250 x 128
PngWidth == 3
PngHeight == 2

(* Program constants *)

CurrentVersion == 1
NoFile == -1

----------------------------------------------------------------------------
(* Paths *)

TempDir == <<"/", "tmp">>
PersistFile == "image_cache.json"

StartsWith(s, prefix) ==
    /\ Len(s) >= Len(prefix)
    /\ \A i \in 1..Len(prefix) : s[i] = prefix[i]

\* the directory d itself or a path below it
InsideDir(p, d) ==
    /\ StartsWith(p, d)
    /\ Len(p) > Len(d) => p[Len(d) + 1] = "/"

\* The state holds a path by a short name; PathString gives its tokens.
\* tempfile.mkstemp(suffix='.png', prefix='eink_auto_') makes a new file in TempDir
MkstempName(n) == "eink_auto_" \o ToString(n)

\* a file in the sibling directory /tmp_evil, and a file in the home directory
SiblingPath == "sibling.png"
HomePath == "home.png"

PathString(p) ==
    CASE p = SiblingPath -> <<"/", "tmp", "_evil", "/", p>>
      [] p = HomePath -> <<"/", "home", "/", p>>
      [] OTHER -> TempDir \o <<"/", p>>

TmpPaths == {MkstempName(n) : n \in 1..MaxTmp}
AllPaths == TmpPaths \cup {SiblingPath, HomePath}

----------------------------------------------------------------------------
(* Sources, requests and fingerprints *)

\* a.png exists and may be rewritten; missing.png never exists
Sources == {"a.png", "missing.png"}
Mtimes == {1, 2}
Params == {0, 1}
Requests == [path : Sources, params : Params]
\* the requests of the scenario with temp paths of every kind
PathRequests == {r \in Requests : r.path = "a.png" \/ r.params = 0}
\* the requests the threads of the pipeline make
PipeRequests == {r \in Requests : r.params = 0}

Threads == {"t1", "t2"}

\* a fingerprint that leaves the modification time out
GenerateCacheKeyNoMtime(req) ==
    [path |-> req.path, mtime |-> NoFile, params |-> req.params]

GenerateCacheKey(req) ==
    [path |-> req.path, mtime |-> src_mtime[req.path], params |-> req.params]

----------------------------------------------------------------------------
(* Python dict helpers.  _cache keeps insertion order: a sequence of        *)
(* [key, entry]; _temp_files is only read by key and by value: a function.  *)

None == ""

HasKey(c, k) == \E i \in 1..Len(c) : c[i].key = k

Lookup(c, k) == c[CHOOSE i \in 1..Len(c) : c[i].key = k].entry

\* dict.pop(k, None)
DictPop(c, k) == SelectSeq(c, LAMBDA x : x.key # k)

\* a dict[k] = e that keeps the value of a key that is present
DictSetDefault(c, k, e) ==
    IF HasKey(c, k) THEN c ELSE Append(c, [key |-> k, entry |-> e])

\* dict[k] = e: a key that is present keeps its position, a new key goes last
DictSet(c, k, e) ==
    IF HasKey(c, k)
    THEN [i \in 1..Len(c) |-> IF c[i].key = k THEN [key |-> k, entry |-> e] ELSE c[i]]
    ELSE Append(c, [key |-> k, entry |-> e])

Keys(c) == {c[i].key : i \in 1..Len(c)}

Values(tf) == {tf[k] : k \in DOMAIN tf}

TfPop(tf, k) == [x \in DOMAIN tf \ {k} |-> tf[x]]

TfSet(tf, k, p) == [x \in DOMAIN tf \cup {k} |-> IF x = k THEN p ELSE tf[x]]

EmptyTf == [x \in {} |-> None]

\* an unlink that leaves the file
UnlinkNothing(fs, p) == fs

\* os.unlink(p), an OSError for a file that is already gone being swallowed
Unlink(fs, p) == fs \ {p}

----------------------------------------------------------------------------
(* ImageCacheManager *)

NewEntry(req, temp_path) ==
    [temp_path |-> temp_path, source_path |-> req.path, params |-> req.params]

\* an _remove_entry that unlinks the temp file whoever else references it
RemoveEntryAlwaysUnlinks(s, key) ==
    LET tp == IF key \in DOMAIN s.temp_files THEN s.temp_files[key] ELSE None
    IN [cache |-> DictPop(s.cache, key),
        temp_files |-> TfPop(s.temp_files, key),
        files |-> IF tp # None THEN Unlink(s.files, tp) ELSE s.files,
        removed |-> Append(s.removed, tp)]

\* _remove_entry on the state s = [cache, temp_files, files, removed]; removed
\* lists the temp paths of the entries removed so far
RemoveEntry(s, key) ==
    LET tp == IF key \in DOMAIN s.temp_files THEN s.temp_files[key] ELSE None
        tf2 == TfPop(s.temp_files, key)
    IN [cache |-> DictPop(s.cache, key),
        temp_files |-> tf2,
        files |-> IF tp # None /\ tp \notin Values(tf2) THEN Unlink(s.files, tp) ELSE s.files,
        removed |-> Append(s.removed, tp)]

\* a put that makes room only once the index holds more than max_size entries
RECURSIVE EnforceMaxSizeOffByOne(_)
EnforceMaxSizeOffByOne(s) ==
    IF Len(s.cache) > max_size
    THEN EnforceMaxSizeOffByOne([err |-> ""] @@ RemoveEntry(s, s.cache[1].key))
    ELSE s

\* put's loop: while len(self._cache) >= self.max_size: remove the first entry.
\* next(iter({})) raises StopIteration when the index is empty (max_size <= 0).
RECURSIVE EnforceMaxSize(_)
EnforceMaxSize(s) ==
    IF Len(s.cache) >= max_size
    THEN IF Len(s.cache) = 0
         THEN [s EXCEPT !.err = "StopIteration"]
         ELSE EnforceMaxSize([err |-> ""] @@ RemoveEntry(s, s.cache[1].key))
    ELSE s

\* a _persist that writes the snapshot only when there is none yet
PersistOnlyOnce(c, snap, io) ==
    IF persist_path = None \/ snap.state = "ok" THEN snap
    ELSE CASE io = "written" -> [state |-> "ok", version |-> CurrentVersion, entries |-> c]
           [] io = "open_fails" -> snap
           [] OTHER -> [state |-> "corrupt", version |-> 0, entries |-> <<>>]

\* _persist; io is what the file system does with the write
PersistOutcomes == {"written", "open_fails", "write_fails"}

Persist(c, snap, io) ==
    IF persist_path = None THEN snap
    ELSE CASE io = "written" -> [state |-> "ok", version |-> CurrentVersion, entries |-> c]
           [] io = "open_fails" -> snap
           [] OTHER -> [state |-> "corrupt", version |-> 0, entries |-> <<>>]

\* a get whose hit leaves the entry where it is
CacheGetNoPromotion(c, tf, fs, key) ==
    IF HasKey(c, key)
    THEN LET entry == Lookup(c, key)
         IN IF entry.temp_path \in fs
            THEN [res |-> entry.temp_path, branch |-> "hit", cache |-> c, temp_files |-> tf]
            ELSE [res |-> None, branch |-> "stale",
                  cache |-> DictPop(c, key), temp_files |-> TfPop(tf, key)]
    ELSE [res |-> None, branch |-> "miss", cache |-> c, temp_files |-> tf]

\* a get that drops a stale entry from the index and forgets the file-reference map
CacheGetLeavesReference(c, tf, fs, key) ==
    IF HasKey(c, key)
    THEN LET entry == Lookup(c, key)
         IN IF entry.temp_path \in fs
            THEN [res |-> entry.temp_path, branch |-> "hit",
                  cache |-> Append(DictPop(c, key), [key |-> key, entry |-> entry]),
                  temp_files |-> tf]
            ELSE [res |-> None, branch |-> "stale",
                  cache |-> DictPop(c, key), temp_files |-> tf]
    ELSE [res |-> None, branch |-> "miss", cache |-> c, temp_files |-> tf]

\* get: [res, branch, cache, temp_files]; res = None when get returns None
CacheGet(c, tf, fs, key) ==
    IF HasKey(c, key)
    THEN LET entry == Lookup(c, key)
         IN IF entry.temp_path \in fs
            THEN [res |-> entry.temp_path, branch |-> "hit",
                  cache |-> Append(DictPop(c, key), [key |-> key, entry |-> entry]),
                  temp_files |-> tf]
            ELSE [res |-> None, branch |-> "stale",
                  cache |-> DictPop(c, key), temp_files |-> TfPop(tf, key)]
    ELSE [res |-> None, branch |-> "miss", cache |-> c, temp_files |-> tf]

\* put: [err, cache, temp_files, files, removed, snapshot]; err = "" when it returns
CachePut(c, tf, fs, snap, req, temp_path, io) ==
    LET s0 == [cache |-> c, temp_files |-> tf, files |-> fs, removed |-> <<>>, err |-> ""]
    IN IF ~StartsWith(PathString(temp_path), TempDir)
       THEN [s0 EXCEPT !.err = "ValueError"] @@ [snapshot |-> snap]
       ELSE LET key == GenerateCacheKey(req)
                s1 == EnforceMaxSize(s0)
            IN IF s1.err # ""
               THEN s1 @@ [snapshot |-> snap]
               ELSE LET c2 == DictSet(s1.cache, key, NewEntry(req, temp_path))
                    IN [err |-> "",
                        cache |-> c2,
                        temp_files |-> TfSet(s1.temp_files, key, temp_path),
                        files |-> s1.files,
                        removed |-> s1.removed,
                        snapshot |-> Persist(c2, snap, io)]

\* clear's loop over list(self._cache.keys())
RECURSIVE RemoveAll(_, _)
RemoveAll(s, ks) ==
    IF ks = <<>> THEN s ELSE RemoveAll(RemoveEntry(s, Head(ks)), Tail(ks))

NoSnapshot == [state |-> "none", version |-> 0, entries |-> <<>>]

CacheClear(c, tf, fs, snap) ==
    LET s1 == RemoveAll([cache |-> c, temp_files |-> tf, files |-> fs, removed |-> <<>>],
                        [i \in 1..Len(c) |-> c[i].key])
    IN [cache |-> <<>>, temp_files |-> EmptyTf, files |-> s1.files,
        snapshot |-> IF persist_path # None THEN NoSnapshot ELSE snap]

\* JSON values of the snapshot that are not what the loader expects: a value
\* that is not an object is [json_type |-> its type], a field that is not a
\* string is NotAStr
NotADict == [json_type |-> "array"]

NotAStr == "<number>"

IsDict(v) == "json_type" \notin DOMAIN v

\* _validate_cache_entry, for an entry whose temp_path is a string
ValidateCacheEntry(entry) ==
    /\ IsDict(entry)
    /\ {"temp_path", "source_path", "params"} \subseteq DOMAIN entry
    /\ StartsWith(PathString(entry.temp_path), TempDir)

\* _validate_cache_entry raises AttributeError at temp_path.startswith when
\* temp_path is not a string (line 121)
ValidateRaises(entry) ==
    /\ IsDict(entry)
    /\ {"temp_path", "source_path", "params"} \subseteq DOMAIN entry
    /\ entry.temp_path = NotAStr

\* the loop of _load_cache_from_json over entries.items(); an exception ends it
RECURSIVE LoadEntries(_, _, _)
LoadEntries(s, entries, fs) ==
    IF entries = <<>> THEN s
    ELSE LET key == Head(entries).key
             entry == Head(entries).entry
         IN IF ValidateRaises(entry)
            THEN [s EXCEPT !.err = "AttributeError"]
            ELSE IF /\ ValidateCacheEntry(entry)
                    /\ "temp_path" \in DOMAIN entry
                    /\ entry.temp_path \in fs
            THEN LoadEntries([s EXCEPT !.cache = DictSet(s.cache, key, entry),
                                       !.temp_files = TfSet(s.temp_files, key, entry.temp_path)],
                             Tail(entries), fs)
            ELSE LoadEntries(s, Tail(entries), fs)

\* _load_cache_from_json: [cache, temp_files, err].  A file that json.load
\* cannot parse raises JSONDecodeError, which is caught; a top level that is not
\* a dict returns; 'version' defaults to 0; an 'entries' that is not a dict
\* raises AttributeError at entries.items() (line 98).  Only JSONDecodeError,
\* KeyError and TypeError are caught (line 107): err is the exception that
\* leaves the method.
LoadCacheFromJson(snap, fs) ==
    LET empty == [cache |-> <<>>, temp_files |-> EmptyTf, err |-> ""]
    IN IF snap.state = "corrupt" THEN empty
       ELSE IF snap.state = "not_a_dict" THEN empty
       ELSE IF snap.version # CurrentVersion THEN empty
       ELSE IF snap.state = "entries_not_a_dict" THEN [empty EXCEPT !.err = "AttributeError"]
       ELSE LoadEntries(empty, snap.entries, fs)

----------------------------------------------------------------------------
(* History of the last step *)

NoReq == [path |-> "", params |-> 0]

Did(op) == [op |-> op, req |-> NoReq, res |-> None]

Returned(op, req, res) == [op |-> op, req |-> req, res |-> res]

Idle == [pc |-> "idle", req |-> NoReq, via |-> "", tmp |-> None, made |-> {}]

----------------------------------------------------------------------------
(* The cache's public operations, called directly *)

\* ImageCacheManager.get
Get(req) ==
    /\ phase = "ready"
    /\ \E r \in {CacheGet(cache, temp_files, files, GenerateCacheKey(req))} :
          /\ cache' = r.cache
          /\ temp_files' = r.temp_files
          /\ last' = Returned("get_" \o r.branch, NoReq, r.res)
    /\ UNCHANGED <<sam, max_size, persist_path, files, snapshot, src_mtime, next_tmp, th, phase>>

\* ImageCacheManager.put with a temp file of the caller (fresh: made with
\* tempfile.mkstemp just before the call)
Put(req, temp_path, fresh, io) ==
    /\ phase = "ready"
    /\ IF fresh
       THEN next_tmp < MaxTmp /\ temp_path = MkstempName(next_tmp + 1)
       ELSE temp_path \in Values(temp_files) \cup {SiblingPath, HomePath}
    /\ \E r \in {CachePut(cache, temp_files,
                          IF fresh THEN files \cup {temp_path} ELSE files,
                          snapshot, req, temp_path, io)} :
          /\ cache' = r.cache
          /\ temp_files' = r.temp_files
          /\ files' = r.files
          /\ snapshot' = r.snapshot
          /\ last' = Returned(IF r.err = "" THEN "put" ELSE "put_raises", NoReq,
                              IF r.removed = <<>> THEN None ELSE r.removed[1])
    /\ next_tmp' = IF fresh THEN next_tmp + 1 ELSE next_tmp
    /\ UNCHANGED <<sam, max_size, persist_path, src_mtime, th, phase>>

\* ImageCacheManager.clear
Clear ==
    /\ phase = "ready"
    /\ \E r \in {CacheClear(cache, temp_files, files, snapshot)} :
          /\ cache' = r.cache
          /\ temp_files' = r.temp_files
          /\ files' = r.files
          /\ snapshot' = r.snapshot
    /\ last' = Did("clear")
    /\ UNCHANGED <<sam, max_size, persist_path, src_mtime, next_tmp, th, phase>>

\* ImageCacheManager.__init__
Construct ==
    /\ phase = "new"
    /\ \E r \in {IF persist_path # None /\ snapshot.state # "none"
                 THEN LoadCacheFromJson(snapshot, files)
                 ELSE [cache |-> <<>>, temp_files |-> EmptyTf, err |-> ""]} :
          IF r.err = ""
          THEN /\ cache' = r.cache
               /\ temp_files' = r.temp_files
               /\ phase' = "ready"
               /\ last' = Did("construct")
          ELSE \* the exception leaves __init__: there is no cache object
               /\ cache' = <<>>
               /\ temp_files' = EmptyTf
               /\ phase' = "failed"
               /\ last' = Did("construct_raises")
    /\ UNCHANGED <<sam, max_size, persist_path, files, snapshot, src_mtime, next_tmp, th>>

----------------------------------------------------------------------------
(* The environment *)

\* something outside the cache deletes a file
ExternalDelete(p) ==
    /\ p \in files
    /\ files' = files \ {p}
    /\ last' = Did("delete")
    /\ UNCHANGED <<sam, max_size, persist_path, cache, temp_files, snapshot, src_mtime,
                   next_tmp, th, phase>>

\* an existing source image is rewritten: its mtime changes
ModifySource(src, mtime) ==
    /\ src_mtime[src] # NoFile
    /\ mtime # src_mtime[src]
    /\ src_mtime' = [src_mtime EXCEPT ![src] = mtime]
    /\ last' = Did("write")
    /\ UNCHANGED <<sam, max_size, persist_path, cache, temp_files, files, snapshot,
                   next_tmp, th, phase>>

----------------------------------------------------------------------------
(* sam.SAM: the buttons and the LED of the RP2040 module behind a serial    *)
(* line.  A callback list is a sequence of callback names; the button state *)
(* is the bit mask the module sends.                                        *)

\* ButtonType
ButtonType == {"BTN_UP", "BTN_DOWN", "BTN_SELECT", "SHUT_DOWN"}

\* SAM._button_state_map
ButtonStateMap ==
    [b \in ButtonType |->
        CASE b = "BTN_UP" -> 1 [] b = "BTN_DOWN" -> 2 [] b = "BTN_SELECT" -> 4 [] OTHER -> 8]

\* the callers of the LED methods
Callers == {"c1", "c2"}

\* SAM.__init__ followed by a successful connect(): empty callback lists, no
\* button down, no LED task (the completion event set); nothing written to
\* the serial line and nothing waiting to be read from it
SamInit ==
    [button_callbacks |-> [b \in ButtonType |-> <<>>],
     button_press_callbacks |-> [b \in ButtonType |-> <<>>],
     button_release_callbacks |-> [b \in ButtonType |-> <<>>],
     previous_button_state |-> 0,
     led_task_running |-> FALSE,
     led_task_completed |-> TRUE,
     in_flight |-> 0,
     in_waiting |-> <<>>,
     pc |-> [c \in Callers |-> "idle"],
     wait |-> [c \in Callers |-> FALSE],
     reader |-> "idle"]

----------------------------------------------------------------------------
(* Display._convert_png_auto, one step per block that runs without the      *)
(* cache's lock being released in between.  via is the path the request is  *)
(* on: "rust" (_rust_processing_available) or "pil" (the software fallback). *)

\* the request ends with DisplayError
Fails(t) ==
    /\ th' = [th EXCEPT ![t] = Idle]
    /\ last' = Did("convert_fail")

\* the native path gave up: "Rust processing failed, falling back to PIL"
FallsBack(t) ==
    /\ th' = [th EXCEPT ![t] = [@ EXCEPT !.via = "pil", !.pc = "convert", !.tmp = None]]
    /\ last' = Did("fallback")

\* lines 944-960: the source must exist, then the cache is asked
Begin(t, req, via) ==
    /\ phase = "ready"
    /\ th[t].pc = "idle"
    /\ IF src_mtime[req.path] = NoFile
       THEN /\ Fails(t)
            /\ UNCHANGED <<sam, cache, temp_files>>
       ELSE \E r \in {CacheGet(cache, temp_files, files, GenerateCacheKey(req))} :
               /\ cache' = r.cache
               /\ temp_files' = r.temp_files
               /\ IF r.res # None
                  THEN /\ th' = [th EXCEPT ![t] = Idle]
                       /\ last' = Returned("convert_hit", req, r.res)
                  ELSE /\ th' = [th EXCEPT ![t] = [pc |-> "convert", req |-> req,
                                                   via |-> via, tmp |-> None, made |-> {}]]
                       /\ last' = Did("convert_miss")
    /\ UNCHANGED <<sam, max_size, persist_path, files, snapshot, src_mtime, next_tmp>>
    /\ UNCHANGED phase

\* lines 964-971 and 1013-1036: the image is converted (decoded is FALSE when the
\* native call or PIL cannot read the source), then tempfile.mkstemp makes the file
Convert(t, decoded) ==
    /\ th[t].pc = "convert"
    /\ IF decoded
       THEN /\ next_tmp < MaxTmp
            /\ LET tmp == MkstempName(next_tmp + 1)
               IN /\ files' = files \cup {tmp}
                  /\ th' = [th EXCEPT ![t] = [@ EXCEPT !.pc = "save", !.tmp = tmp,
                                                       !.made = @ \cup {tmp}]]
            /\ next_tmp' = next_tmp + 1
            /\ last' = Did("mkstemp")
       ELSE /\ IF th[t].via = "rust" THEN FallsBack(t) ELSE Fails(t)
            /\ UNCHANGED <<sam, files, next_tmp>>
    /\ UNCHANGED <<sam, max_size, persist_path, cache, temp_files, snapshot, src_mtime, phase>>

\* lines 972-990 and 1037-1039: the image is saved to the temp file; an error
\* unlinks the temp file (lines 1002-1007, 1050-1055)
Save(t, saved) ==
    /\ th[t].pc = "save"
    /\ IF saved
       THEN /\ th' = [th EXCEPT ![t] = [@ EXCEPT !.pc = "store"]]
            /\ last' = Did("save")
            /\ UNCHANGED files
       ELSE /\ files' = Unlink(files, th[t].tmp)
            /\ IF th[t].via = "rust" THEN FallsBack(t) ELSE Fails(t)
    /\ UNCHANGED <<sam, max_size, persist_path, cache, temp_files, snapshot, src_mtime,
                   next_tmp, phase>>

\* lines 992-1000 and 1041-1049: the result is put into the cache and returned;
\* an error in put unlinks the temp file
Store(t, io) ==
    /\ th[t].pc = "store"
    /\ \E r \in {CachePut(cache, temp_files, files, snapshot, th[t].req, th[t].tmp, io)} :
          /\ cache' = r.cache
          /\ temp_files' = r.temp_files
          /\ snapshot' = r.snapshot
          /\ IF r.err = ""
             THEN /\ files' = r.files
                  /\ th' = [th EXCEPT ![t] = Idle]
                  /\ last' = Returned("convert_ok", th[t].req, th[t].tmp)
             ELSE /\ files' = Unlink(r.files, th[t].tmp)
                  /\ IF th[t].via = "rust" THEN FallsBack(t) ELSE Fails(t)
    /\ UNCHANGED <<sam, max_size, persist_path, src_mtime, next_tmp, phase>>

----------------------------------------------------------------------------
(* Specifications.  All but the last start from a cache constructed without *)
(* a snapshot file (ImageCacheManager.__init__, lines 69-81).               *)

InitWith(sizes, persists) ==
    /\ max_size \in sizes
    /\ persist_path \in persists
    /\ cache = <<>>
    /\ temp_files = EmptyTf
    /\ files = {SiblingPath}
    /\ snapshot = NoSnapshot
    /\ src_mtime = [s \in Sources |-> IF s = "a.png" THEN 1 ELSE NoFile]
    /\ next_tmp = 0
    /\ th = [t \in Threads |-> Idle]
    /\ sam = SamInit
    /\ phase = "ready"
    /\ last = Did("")

\* the cache's operations called one after the other, no persist path
Init == InitWith(1..MaxSize, {None})

Next ==
    \/ \E req \in Requests : Get(req)
    \/ \E req \in Requests, p \in TmpPaths : Put(req, p, TRUE, "written")
    \/ Clear
    \/ \E p \in TmpPaths : ExternalDelete(p)

Spec == Init /\ [][Next]_vars

\* put called with temp paths of every kind: new, already referenced by an entry,
\* outside the temp directory
NextPaths ==
    \/ \E req \in PathRequests, p \in AllPaths, fresh \in BOOLEAN :
          Put(req, p, fresh, "written")
    \/ Clear

InitPaths == InitWith({MaxSize}, {None})

SpecPaths == InitPaths /\ [][NextPaths]_vars

\* the same with a persist path configured
InitPersist == InitWith({MaxSize}, {PersistFile})

NextPersist ==
    \/ \E req \in PipeRequests : Get(req)
    \/ \E req \in PipeRequests, p \in TmpPaths, io \in PersistOutcomes : Put(req, p, TRUE, io)
    \/ Clear
    \/ \E src \in Sources, mtime \in Mtimes : ModifySource(src, mtime)

SpecPersist == InitPersist /\ [][NextPersist]_vars

\* threads inside _convert_png_auto
InitPipe == InitWith(0..MaxSize, {None})

NextPipe ==
    \/ \E t \in Threads, req \in PipeRequests, via \in {"rust", "pil"} : Begin(t, req, via)
    \/ \E t \in Threads, decoded \in BOOLEAN : Convert(t, decoded)
    \/ \E t \in Threads, saved \in BOOLEAN : Save(t, saved)
    \/ \E t \in Threads : Store(t, "written")
    \/ \E src \in Sources, mtime \in Mtimes : ModifySource(src, mtime)

SpecPipe == InitPipe /\ [][NextPipe]_vars

\* a cache constructed from what an earlier session, or anybody else, left in
\* the snapshot file and in the temp directory
SnapshotKey(n) == [path |-> "a.png", mtime |-> n, params |-> n % 2]

SnapshotCandidates ==
    << [key |-> SnapshotKey(1), entry |-> NewEntry([path |-> "a.png", params |-> 1], MkstempName(1))],
       [key |-> SnapshotKey(2), entry |-> NewEntry([path |-> "a.png", params |-> 0], MkstempName(2))],
       [key |-> SnapshotKey(3),
        entry |-> [temp_path |-> MkstempName(1), source_path |-> "a.png"]],
       [key |-> SnapshotKey(4), entry |-> NewEntry([path |-> "a.png", params |-> 0], SiblingPath)],
       [key |-> SnapshotKey(5), entry |-> NewEntry([path |-> "a.png", params |-> 1], HomePath)] >>

\* the sequences of at most MaxSnap different candidates
SnapshotEntryLists ==
    LET idx == DOMAIN SnapshotCandidates
        lists == UNION {[1..n -> idx] : n \in 0..MaxSnap}
    IN {[i \in DOMAIN l |-> SnapshotCandidates[l[i]]] :
          l \in {m \in lists : \A i, j \in DOMAIN m : i # j => m[i] # m[j]}}

InitLoad ==
    /\ max_size \in 1..MaxSize
    /\ persist_path = PersistFile
    /\ cache = <<>>
    /\ temp_files = EmptyTf
    /\ files \in {fs \cup {HomePath} : fs \in SUBSET {MkstempName(1), MkstempName(2), SiblingPath}}
    /\ \/ snapshot \in [state : {"ok"}, version : {0, CurrentVersion, CurrentVersion + 1},
                        entries : SnapshotEntryLists]
       \/ snapshot \in {NoSnapshot, [state |-> "corrupt", version |-> 0, entries |-> <<>>]}
    /\ src_mtime = [s \in Sources |-> IF s = "a.png" THEN 1 ELSE NoFile]
    /\ next_tmp = 2
    /\ th = [t \in Threads |-> Idle]
    /\ sam = SamInit
    /\ phase = "new"
    /\ last = Did("")

NextLoad == Construct

SpecLoad == InitLoad /\ [][NextLoad]_vars

\* a cache constructed from a snapshot file of any content, then used by one
\* thread's conversion requests for an image that exists
CorruptCandidates ==
    << [key |-> [path |-> "a.png", mtime |-> 1, params |-> 0],
        entry |-> NewEntry([path |-> "a.png", params |-> 0], MkstempName(1))],
       [key |-> SnapshotKey(2), entry |-> NotADict],
       [key |-> SnapshotKey(3),
        entry |-> [temp_path |-> NotAStr, source_path |-> "a.png", params |-> 0]],
       [key |-> SnapshotKey(4),
        entry |-> [temp_path |-> MkstempName(1), source_path |-> NotAStr, params |-> 0]] >>

CorruptEntryLists ==
    LET idx == DOMAIN CorruptCandidates
        lists == UNION {[1..n -> idx] : n \in 0..MaxSnap}
    IN {[i \in DOMAIN l |-> CorruptCandidates[l[i]]] :
          l \in {m \in lists : \A i, j \in DOMAIN m : i # j => m[i] # m[j]}}

InitCorrupt ==
    /\ max_size = MaxSize
    /\ persist_path = PersistFile
    /\ cache = <<>>
    /\ temp_files = EmptyTf
    /\ files = {MkstempName(1), SiblingPath}
    /\ \/ snapshot \in [state : {"ok"}, version : {CurrentVersion}, entries : CorruptEntryLists]
       \/ snapshot \in [state : {"corrupt", "not_a_dict", "entries_not_a_dict"},
                        version : {0, CurrentVersion}, entries : {<<>>}]
    /\ src_mtime = [s \in Sources |-> IF s = "a.png" THEN 1 ELSE NoFile]
    /\ next_tmp = 1
    /\ th = [t \in Threads |-> Idle]
    /\ sam = SamInit
    /\ phase = "new"
    /\ last = Did("")

NextCorrupt ==
    \/ Construct
    \/ \E req \in {r \in PipeRequests : r.path = "a.png"}, via \in {"rust", "pil"} :
          Begin("t1", req, via)
    \/ \E decoded \in BOOLEAN : Convert("t1", decoded)
    \/ \E saved \in BOOLEAN : Save("t1", saved)
    \/ Store("t1", "written")

SpecCorrupt == InitCorrupt /\ [][NextCorrupt]_vars

----------------------------------------------------------------------------
(* The locks.  ImageCacheManager._lock (line 59) is held by a thread whose   *)
(* pc is inside a "with self._lock" block; Display._cache_lock (line 348)   *)
(* is held by a thread whose via is "display".  Each action below is one    *)
(* statement, or a run of statements, that changes what another thread can  *)
(* see.                                                                     *)

LockedPcs == {"put_evict", "put_rm", "put_ref", "get_hit_mid", "get_stale_mid",
              "clear_loop", "clear_rm"}

HoldsLock(t) == th[t].pc \in LockedPcs

LockFree == \A t \in Threads : ~HoldsLock(t)

HoldsCacheLock(t) == th[t].via = "display"

CacheLockFree == \A t \in Threads : ~HoldsCacheLock(t)

\* the requests of the threads that share the cache
LockRequests == {r \in Requests : r.path = "a.png"}

\* an exit that leaves the thread inside the with block, the locks still held
ExitKeepsLocks(t) == [th EXCEPT ![t] = [@ EXCEPT !.pc = "put_rm", !.made = {}]]

\* leaving the with blocks by an exception: __exit__ releases the locks
ExitOnError(t) == [th EXCEPT ![t] = Idle]

\* leaving the with blocks by return: the locks are released
Exit(t) == [th EXCEPT ![t] = Idle]

\* put is called with a temp file just made (lines 971, 993); the thread waits
\* for the lock
CallPut(t, req) ==
    /\ phase = "ready"
    /\ th[t].pc = "idle"
    /\ next_tmp < MaxLockTmp
    /\ LET tmp == MkstempName(next_tmp + 1)
       IN /\ files' = files \cup {tmp}
          /\ th' = [th EXCEPT ![t] = [pc |-> "put_wait", req |-> req, via |-> "",
                                      tmp |-> tmp, made |-> {}]]
    /\ next_tmp' = next_tmp + 1
    /\ last' = Did("call_put")
    /\ UNCHANGED <<sam, max_size, persist_path, cache, temp_files, snapshot, src_mtime, phase>>

\* line 205: with self._lock
PutAcquire(t) ==
    /\ th[t].pc = "put_wait"
    /\ LockFree
    /\ th' = [th EXCEPT ![t] = [@ EXCEPT !.pc = "put_evict"]]
    /\ last' = Did("put_acquire")
    /\ UNCHANGED <<sam, max_size, persist_path, cache, temp_files, files, snapshot, src_mtime,
                   next_tmp, phase>>

\* lines 214-217 and 247: the loop finds the index full and pops its first key
\* (StopIteration when the index is empty)
PutEvict(t) ==
    /\ th[t].pc = "put_evict"
    /\ Len(cache) >= max_size
    /\ IF cache = <<>>
       THEN /\ th' = ExitOnError(t)
            /\ last' = Did("put_raises")
            /\ UNCHANGED cache
       ELSE /\ cache' = Tail(cache)
            /\ th' = [th EXCEPT ![t] = [@ EXCEPT !.pc = "put_rm", !.made = {Head(cache).key}]]
            /\ last' = Did("pop_index")
    /\ UNCHANGED <<sam, max_size, persist_path, temp_files, files, snapshot, src_mtime,
                   next_tmp, phase>>

\* lines 248-255: _remove_entry pops the file reference and unlinks the file
RemoveRef(t) ==
    /\ th[t].pc \in {"put_rm", "clear_rm"}
    /\ \E key \in th[t].made :
          LET tp == IF key \in DOMAIN temp_files THEN temp_files[key] ELSE None
              tf2 == TfPop(temp_files, key)
          IN /\ temp_files' = tf2
             /\ files' = IF tp # None /\ tp \notin Values(tf2) THEN Unlink(files, tp) ELSE files
    /\ th' = [th EXCEPT ![t] = [@ EXCEPT !.pc = IF @ = "put_rm" THEN "put_evict" ELSE "clear_loop",
                                         !.made = {}]]
    /\ last' = Did("pop_ref")
    /\ UNCHANGED <<sam, max_size, persist_path, cache, snapshot, src_mtime, next_tmp, phase>>

\* lines 220-233: the entry is written to the index
PutIndex(t) ==
    /\ th[t].pc = "put_evict"
    /\ Len(cache) < max_size
    /\ cache' = DictSet(cache, GenerateCacheKey(th[t].req), NewEntry(th[t].req, th[t].tmp))
    /\ th' = [th EXCEPT ![t] = [@ EXCEPT !.pc = "put_ref"]]
    /\ last' = Did("set_index")
    /\ UNCHANGED <<sam, max_size, persist_path, temp_files, files, snapshot, src_mtime,
                   next_tmp, phase>>

\* lines 234-243: the file reference is written, the snapshot saved, put returns
PutRef(t) ==
    /\ th[t].pc = "put_ref"
    /\ temp_files' = TfSet(temp_files, GenerateCacheKey(th[t].req), th[t].tmp)
    /\ snapshot' = Persist(cache, snapshot, "written")
    /\ th' = Exit(t)
    /\ last' = Did("put")
    /\ UNCHANGED <<sam, max_size, persist_path, cache, files, src_mtime, next_tmp, phase>>

\* get is called (line 954); the thread waits for the lock
CallGet(t, req) ==
    /\ phase = "ready"
    /\ th[t].pc = "idle"
    /\ th' = [th EXCEPT ![t] = [pc |-> "get_wait", req |-> req, via |-> "",
                                tmp |-> None, made |-> {}]]
    /\ last' = Did("call_get")
    /\ UNCHANGED <<sam, max_size, persist_path, cache, temp_files, files, snapshot, src_mtime,
                   next_tmp, phase>>

\* lines 177-191: with self._lock; a miss returns None, a hit pops the key
\* (line 186), a stale entry is popped from the index (line 191)
GetAcquire(t) ==
    /\ th[t].pc = "get_wait"
    /\ LockFree
    /\ LET key == GenerateCacheKey(th[t].req)
       IN IF ~HasKey(cache, key)
          THEN /\ th' = Exit(t)
               /\ last' = Returned("get_miss", th[t].req, None)
               /\ UNCHANGED cache
          ELSE /\ cache' = DictPop(cache, key)
               /\ IF Lookup(cache, key).temp_path \in files
                  THEN /\ th' = [th EXCEPT ![t] = [@ EXCEPT !.pc = "get_hit_mid",
                                                    !.tmp = Lookup(cache, key).temp_path]]
                       /\ last' = Did("pop_index")
                  ELSE /\ th' = [th EXCEPT ![t] = [@ EXCEPT !.pc = "get_stale_mid"]]
                       /\ last' = Did("pop_stale")
    /\ UNCHANGED <<sam, max_size, persist_path, temp_files, files, snapshot, src_mtime,
                   next_tmp, phase>>

\* lines 187-188: the entry is written back, last in the order, and returned
GetReinsert(t) ==
    /\ th[t].pc = "get_hit_mid"
    /\ cache' = DictSet(cache, GenerateCacheKey(th[t].req), NewEntry(th[t].req, th[t].tmp))
    /\ th' = Exit(t)
    /\ last' = Returned("get_hit", th[t].req, th[t].tmp)
    /\ UNCHANGED <<sam, max_size, persist_path, temp_files, files, snapshot, src_mtime,
                   next_tmp, phase>>

\* lines 192-194: the file reference of the stale entry is popped, None returned
GetDropRef(t) ==
    /\ th[t].pc = "get_stale_mid"
    /\ temp_files' = TfPop(temp_files, GenerateCacheKey(th[t].req))
    /\ th' = Exit(t)
    /\ last' = Returned("get_stale", th[t].req, None)
    /\ UNCHANGED <<sam, max_size, persist_path, cache, files, snapshot, src_mtime,
                   next_tmp, phase>>

\* a call that starts by taking Display._cache_lock: Display.clear_cache (line
\* 833), Display.get_cache_stats (line 840), Display.__init__ (line 385)
CallDisplay(t, op) ==
    /\ th[t].pc = "idle"
    /\ th' = [th EXCEPT ![t] = [Idle EXCEPT !.pc = op]]
    /\ last' = Did("call_display")
    /\ UNCHANGED <<sam, max_size, persist_path, cache, temp_files, files, snapshot, src_mtime,
                   next_tmp, phase>>

\* with cls._cache_lock; clear_cache and get_cache_stats return at once when
\* there is no cache manager (lines 834, 841-843)
TakeCacheLock(t) ==
    /\ th[t].pc \in {"clear_call", "stats_call", "init_call"}
    /\ CacheLockFree
    /\ IF th[t].pc # "init_call" /\ phase # "ready"
       THEN th' = Exit(t)
       ELSE th' = [th EXCEPT ![t] = [@ EXCEPT !.via = "display",
                                     !.pc = CASE @ = "clear_call" -> "clear_wait"
                                              [] @ = "stats_call" -> "stats_wait"
                                              [] OTHER -> "init_locked"]]
    /\ last' = Did("cache_lock")
    /\ UNCHANGED <<sam, max_size, persist_path, cache, temp_files, files, snapshot, src_mtime,
                   next_tmp, phase>>

\* lines 386-395: the first Display constructs the cache manager, from the
\* snapshot if there is one; the lock is released
InitDone(t) ==
    /\ th[t].pc = "init_locked"
    /\ IF phase = "new"
       THEN \E r \in {IF persist_path # None /\ snapshot.state # "none"
                      THEN LoadCacheFromJson(snapshot, files)
                      ELSE [cache |-> <<>>, temp_files |-> EmptyTf, err |-> ""]} :
               /\ cache' = IF r.err = "" THEN r.cache ELSE <<>>
               /\ temp_files' = IF r.err = "" THEN r.temp_files ELSE EmptyTf
               /\ phase' = IF r.err = "" THEN "ready" ELSE "new"
               /\ th' = IF r.err = "" THEN Exit(t) ELSE ExitOnError(t)
       ELSE /\ th' = Exit(t)
            /\ UNCHANGED <<sam, cache, temp_files, phase>>
    /\ last' = Did("display_init")
    /\ UNCHANGED <<sam, max_size, persist_path, files, snapshot, src_mtime, next_tmp>>

\* ImageCacheManager.clear or get_stats called directly: no Display lock
CallCache(t, op) ==
    /\ phase = "ready"
    /\ th[t].pc = "idle"
    /\ th' = [th EXCEPT ![t] = [Idle EXCEPT !.pc = op]]
    /\ last' = Did("call_cache")
    /\ UNCHANGED <<sam, max_size, persist_path, cache, temp_files, files, snapshot, src_mtime,
                   next_tmp, phase>>

\* line 259: with self._lock
ClearAcquire(t) ==
    /\ th[t].pc = "clear_wait"
    /\ LockFree
    /\ th' = [th EXCEPT ![t] = [@ EXCEPT !.pc = "clear_loop"]]
    /\ last' = Did("clear_acquire")
    /\ UNCHANGED <<sam, max_size, persist_path, cache, temp_files, files, snapshot, src_mtime,
                   next_tmp, phase>>

\* lines 260-271: the loop pops the next key of the index (line 247); when none
\* is left both dicts are cleared, the snapshot file unlinked, clear returns
ClearStep(t) ==
    /\ th[t].pc = "clear_loop"
    /\ IF cache # <<>>
       THEN /\ cache' = Tail(cache)
            /\ th' = [th EXCEPT ![t] = [@ EXCEPT !.pc = "clear_rm", !.made = {Head(cache).key}]]
            /\ last' = Did("pop_index")
            /\ UNCHANGED <<sam, temp_files, snapshot>>
       ELSE /\ temp_files' = EmptyTf
            /\ snapshot' = IF persist_path # None THEN NoSnapshot ELSE snapshot
            /\ th' = Exit(t)
            /\ last' = Did("clear")
            /\ UNCHANGED cache
    /\ UNCHANGED <<sam, max_size, persist_path, files, src_mtime, next_tmp, phase>>

\* lines 275-288: get_stats reads both dicts inside with self._lock and returns
StatsRead(t) ==
    /\ th[t].pc = "stats_wait"
    /\ LockFree
    /\ th' = Exit(t)
    /\ last' = Did("get_stats")
    /\ UNCHANGED <<sam, max_size, persist_path, cache, temp_files, files, snapshot, src_mtime,
                   next_tmp, phase>>

\* display_png_auto, line 1174: the values of _temp_files are read, no lock held
ReadTempFiles(t) ==
    /\ phase = "ready"
    /\ th[t].pc = "idle"
    /\ last' = Did("read_temp_files")
    /\ UNCHANGED <<sam, max_size, persist_path, cache, temp_files, files, snapshot, src_mtime,
                   next_tmp, th, phase>>

\* one step of thread t inside a call
Continue(t) ==
    \/ PutAcquire(t) \/ PutEvict(t) \/ RemoveRef(t) \/ PutIndex(t) \/ PutRef(t)
    \/ GetAcquire(t) \/ GetReinsert(t) \/ GetDropRef(t)
    \/ TakeCacheLock(t) \/ InitDone(t)
    \/ ClearAcquire(t) \/ ClearStep(t) \/ StatsRead(t)

InitLock ==
    /\ max_size \in 0..1
    /\ persist_path = None
    /\ cache = <<>>
    /\ temp_files = EmptyTf
    /\ files = {SiblingPath}
    /\ snapshot = NoSnapshot
    /\ src_mtime = [s \in Sources |-> IF s = "a.png" THEN 1 ELSE NoFile]
    /\ next_tmp = 0
    /\ th = [t \in Threads |-> Idle]
    /\ sam = SamInit
    /\ phase = "new"
    /\ last = Did("")

NextLock ==
    \/ \E t \in Threads, req \in LockRequests : CallPut(t, req)
    \/ \E t \in Threads, req \in LockRequests : CallGet(t, req)
    \/ \E t \in Threads, op \in {"clear_call", "stats_call", "init_call"} : CallDisplay(t, op)
    \/ \E t \in Threads, op \in {"clear_wait", "stats_wait"} : CallCache(t, op)
    \/ \E t \in Threads : ReadTempFiles(t)
    \/ \E t \in Threads : Continue(t)
    \/ \E p \in TmpPaths : ExternalDelete(p)

SpecLock == InitLock /\ [][NextLock]_vars

\* the scheduler lets every thread that can take a step take one: a thread
\* that waits for a lock gets it if the lock is free again and again
FairSpecLock == SpecLock /\ \A t \in Threads : SF_vars(Continue(t))

\* get and put for one image under every parameter combination, the image
\* being rewritten in between (its mtime may go back to an earlier value)
InitMtime == InitWith({MaxSize}, {None})

NextMtime ==
    \/ \E req \in LockRequests : Get(req)
    \/ \E req \in LockRequests, p \in TmpPaths : Put(req, p, TRUE, "written")
    \/ \E mtime \in Mtimes : ModifySource("a.png", mtime)

SpecMtime == InitMtime /\ [][NextMtime]_vars

----------------------------------------------------------------------------
(* Display._validate_path.  A path is [abs, comps]: whether it starts with   *)
(* "/" and its components.  The file system has one symbolic link,          *)
(* /tmp/link -> /etc; the process runs in the home directory /home/u.       *)

Comps == {"tmp", "tmp_evil", "home", "u", "etc", "link", "a.png", "a..b.png", "..", "~"}

Cwd == <<"home", "u">>

HomeDir == <<"home", "u">>

Symlinks == [x \in {<<"tmp", "link">>} |-> <<"etc">>]

\* Display._allowed_dirs: the home directory, /tmp, the temp directory and the
\* installation directory
AllowedDirs == {HomeDir, <<"tmp">>, <<"opt", "distiller-cm5-sdk">>}

\* the characters of a component, as far as a prefix test can tell them apart
CompTokens(c) == IF c = "tmp_evil" THEN <<"tmp", "_evil">> ELSE <<c>>

\* the string of an absolute path
RECURSIVE AbsString(_)
AbsString(comps) ==
    IF comps = <<>> THEN <<>>
    ELSE <<"/">> \o CompTokens(Head(comps)) \o AbsString(Tail(comps))

\* os.path.normpath on the components of an absolute path: ".." removes the
\* component before it, lexically
RECURSIVE NormFrom(_, _)
NormFrom(acc, rest) ==
    IF rest = <<>> THEN acc
    ELSE IF Head(rest) = ".."
         THEN NormFrom(IF acc = <<>> THEN <<>> ELSE SubSeq(acc, 1, Len(acc) - 1), Tail(rest))
         ELSE NormFrom(Append(acc, Head(rest)), Tail(rest))

\* os.path.abspath: join with the working directory, then normpath
Abspath(path) == NormFrom(<<>>, IF path.abs THEN path.comps ELSE Cwd \o path.comps)

\* os.path.expanduser: a leading "~" component becomes the home directory
Expanduser(path) ==
    IF ~path.abs /\ path.comps # <<>> /\ Head(path.comps) = "~"
    THEN [abs |-> TRUE, comps |-> HomeDir \o Tail(path.comps)]
    ELSE path

\* os.path.realpath: as abspath, but a symbolic link is followed as soon as it
\* is reached, so ".." after a link is the parent of the link's target
RECURSIVE RealFrom(_, _)
RealFrom(acc, rest) ==
    IF rest = <<>> THEN acc
    ELSE IF Head(rest) = ".."
         THEN RealFrom(IF acc = <<>> THEN <<>> ELSE SubSeq(acc, 1, Len(acc) - 1), Tail(rest))
         ELSE LET next == Append(acc, Head(rest))
              IN RealFrom(IF next \in DOMAIN Symlinks THEN Symlinks[next] ELSE next, Tail(rest))

Realpath(path) == RealFrom(<<>>, IF path.abs THEN path.comps ELSE Cwd \o path.comps)

\* ".." in path or "~" in path: substring tests on the path string
HasTraversalChars(path) ==
    \E i \in 1..Len(path.comps) : path.comps[i] \in {"..", "~", "a..b.png"}

\* _validate_path: "ok" when it returns, else the DisplayError it raises
ValidatePath(path) ==
    LET abs_path == Abspath(path)
    IN IF HasTraversalChars(path) /\ Realpath(Expanduser(path)) # abs_path
       THEN "traversal"
       ELSE IF \E d \in AllowedDirs : StartsWith(AbsString(abs_path), AbsString(d))
            THEN "ok"
            ELSE "outside"

PathInputs ==
    [abs : BOOLEAN, comps : UNION {[1..n -> Comps] : n \in 1..MaxPathLen}]

\* display_image, convert_png_to_raw and _convert_png_auto call _validate_path
\* first (lines 638, 738, 945)
CallValidatePath(path) ==
    /\ last.op = ""
    /\ last' = Returned("validate_path", path, ValidatePath(path))
    /\ UNCHANGED <<sam, max_size, persist_path, cache, temp_files, files, snapshot, src_mtime,
                   next_tmp, th, phase>>

InitValidate == InitWith({MaxSize}, {None})

NextValidate == \E path \in PathInputs : CallValidatePath(path)

SpecValidate == InitValidate /\ [][NextValidate]_vars

----------------------------------------------------------------------------
(* dithering.pack_1bit_data.  A matrix is a sequence of rows (binary_data[y] *)
(* is row y), a packed buffer a sequence of bytes 0..255.                   *)

Pow2(n) == 2 ^ n

\* a threshold that takes 127 for white
ThresholdInclusive(value) == IF value >= 127 THEN 1 ELSE 0

\* (binary_data > 127).astype(np.uint8)
Threshold(value) == IF value > 127 THEN 1 ELSE 0

\* bits.flatten(): row-major
RECURSIVE Flatten(_)
Flatten(rows) == IF rows = <<>> THEN <<>> ELSE Head(rows) \o Flatten(Tail(rows))

\* np.pad(bits_flat, (0, padding), constant_values=0) when the length is not a
\* multiple of 8
Padded(bits_flat) ==
    IF Len(bits_flat) % 8 # 0
    THEN bits_flat \o [i \in 1..(8 - (Len(bits_flat) % 8)) |-> 0]
    ELSE bits_flat

\* the inner loop: byte_val |= 1 << (7 - j) for the set bits i+j, j = 0..7
RECURSIVE PackByte(_, _, _)
PackByte(bits_flat, i, j) ==
    IF j = 8 THEN 0
    ELSE (IF i + j < Len(bits_flat) /\ bits_flat[i + j + 1] = 1 THEN Pow2(7 - j) ELSE 0)
         + PackByte(bits_flat, i, j + 1)

\* pack_1bit_data
Pack1bitData(binary_data) ==
    LET height == Len(binary_data)
        width == Len(binary_data[1])
        total_bytes == (height * width + 7) \div 8
        bits_flat == Padded(Flatten([y \in 1..height |->
                                        [x \in 1..width |-> Threshold(binary_data[y][x])]]))
    IN [n \in 1..total_bytes |-> PackByte(bits_flat, (n - 1) * 8, 0)]

\* the matrices: every pattern of dark and light pixels, the dark and the light
\* value being the extremes or the two values next to the threshold
PixelPairs == {<<0, 255>>, <<127, 128>>}

Matrix(h, w, pattern, pair) == [y \in 1..h |-> [x \in 1..w |-> pair[pattern[y][x] + 1]]]

CallPack ==
    /\ last.op = "input"
    /\ last' = [op |-> "pack", req |-> last.req, res |-> Pack1bitData(last.req)]
    /\ UNCHANGED <<sam, max_size, persist_path, cache, temp_files, files, snapshot, src_mtime,
                   next_tmp, th, phase>>

\* the state of a process that only calls pure functions: no cache
NoCache ==
    /\ max_size = 0
    /\ persist_path = None
    /\ cache = <<>>
    /\ temp_files = EmptyTf
    /\ files = {}
    /\ snapshot = NoSnapshot
    /\ src_mtime = [s \in Sources |-> NoFile]
    /\ next_tmp = 0
    /\ th = [t \in Threads |-> Idle]
    /\ sam = SamInit
    /\ phase = "new"

InitPack ==
    /\ NoCache
    /\ \E h \in 1..MaxDim, w \in 1..MaxDim, pair \in PixelPairs :
          \E pattern \in [1..h -> [1..w -> {0, 1}]] :
             last = [op |-> "input", req |-> Matrix(h, w, pattern, pair), res |-> <<>>]

NextPack == CallPack

SpecPack == InitPack /\ [][NextPack]_vars

----------------------------------------------------------------------------
(* The transforms of packed bitmaps: rotate_bitpacked_ccw_90 and            *)
(* flip_bitpacked_horizontal.  A result is [err, data, width, height].      *)

\* (src_data[src_bit_idx // 8] >> (7 - src_bit_idx % 8)) & 1
BitAt(data, i) == (data[(i \div 8) + 1] \div Pow2(7 - (i % 8))) % 2

\* a destination bit position counted from the low end of the byte
DstBitPosLsbFirst(dst_bit_idx) == dst_bit_idx % 8

\* dst_bit_pos = 7 - (dst_bit_idx % 8)
DstBitPos(dst_bit_idx) == 7 - (dst_bit_idx % 8)

\* dst_data[dst_bit_idx // 8] |= 1 << dst_bit_pos
SetBit(data, dst_bit_idx) ==
    LET pos == DstBitPos(dst_bit_idx)
    IN [data EXCEPT ![(dst_bit_idx \div 8) + 1] =
           IF (@ \div Pow2(pos)) % 2 = 1 THEN @ ELSE @ + Pow2(pos)]

\* bytearray(n)
Bytearray(n) == [i \in 1..n |-> 0]

ExpectedBytes(width, height) == (width * height + 7) \div 8

\* the destination of a clockwise rotation
RotatedBitIdxClockwise(src_x, src_y, src_width, src_height) ==
    src_x * src_height + (src_height - 1 - src_y)

\* dst_x = src_y; dst_y = src_width - 1 - src_x; dst_bit_idx = dst_y * dst_width + dst_x
RotatedBitIdx(src_x, src_y, src_width, src_height) ==
    LET dst_width == src_height
        dst_x == src_y
        dst_y == src_width - 1 - src_x
    IN dst_y * dst_width + dst_x

\* the two loops of the rotation, k = src_y * src_width + src_x
RECURSIVE RotateLoop(_, _, _, _, _)
RotateLoop(src_data, src_width, src_height, k, dst_data) ==
    IF k >= src_width * src_height THEN dst_data
    ELSE RotateLoop(src_data, src_width, src_height, k + 1,
            IF BitAt(src_data, k) = 1
            THEN SetBit(dst_data, RotatedBitIdx(k % src_width, k \div src_width,
                                                src_width, src_height))
            ELSE dst_data)

ValueError == [err |-> "ValueError", data |-> <<>>, width |-> 0, height |-> 0]

RotateBitpackedCcw90(src_data, src_width, src_height) ==
    IF Len(src_data) < ExpectedBytes(src_width, src_height) THEN ValueError
    ELSE [err |-> "",
          data |-> RotateLoop(src_data, src_width, src_height, 0,
                              Bytearray(ExpectedBytes(src_height, src_width))),
          width |-> src_height, height |-> src_width]

\* flipped_x = src_width - 1 - x; dst_bit_idx = y * src_width + flipped_x
RECURSIVE FlipLoop(_, _, _, _, _)
FlipLoop(src_data, src_width, src_height, k, dst_data) ==
    IF k >= src_width * src_height THEN dst_data
    ELSE FlipLoop(src_data, src_width, src_height, k + 1,
            IF BitAt(src_data, k) = 1
            THEN SetBit(dst_data, (k \div src_width) * src_width
                                  + (src_width - 1 - (k % src_width)))
            ELSE dst_data)

FlipBitpackedHorizontal(src_data, src_width, src_height) ==
    IF Len(src_data) < ExpectedBytes(src_width, src_height) THEN ValueError
    ELSE [err |-> "",
          data |-> FlipLoop(src_data, src_width, src_height, 0,
                            Bytearray(ExpectedBytes(src_width, src_height))),
          width |-> src_width, height |-> src_height]

\* the bytes the buffers are made of: single bits, mixed patterns, all bits
ByteValues == {0, 1, 2, 64, 90, 128, 165, 255}

Buffers == UNION {[1..n -> ByteValues] : n \in 0..MaxBytes}

\* the first call on the input
CallRotate ==
    /\ last.op = "input"
    /\ last' = [op |-> "rotate", req |-> last.req,
                res |-> [r |-> RotateBitpackedCcw90(last.req.src_data, last.req.src_width,
                                                    last.req.src_height),
                         n |-> 1]]
    /\ UNCHANGED <<sam, max_size, persist_path, cache, temp_files, files, snapshot, src_mtime,
                   next_tmp, th, phase>>

\* a caller that rotates the result again, passing the swapped dimensions
RotateAgain ==
    /\ last.op = "rotate"
    /\ last.res.r.err = ""
    /\ last.res.n < 4
    /\ last' = [last EXCEPT !.res = [r |-> RotateBitpackedCcw90(@.r.data, @.r.width, @.r.height),
                                     n |-> @.n + 1]]
    /\ UNCHANGED <<sam, max_size, persist_path, cache, temp_files, files, snapshot, src_mtime,
                   next_tmp, th, phase>>

CallFlip ==
    /\ last.op = "input"
    /\ last' = [op |-> "flip", req |-> last.req,
                res |-> [r |-> FlipBitpackedHorizontal(last.req.src_data, last.req.src_width,
                                                       last.req.src_height),
                         n |-> 1]]
    /\ UNCHANGED <<sam, max_size, persist_path, cache, temp_files, files, snapshot, src_mtime,
                   next_tmp, th, phase>>

InitBits ==
    /\ NoCache
    /\ last \in [op : {"input"},
                 req : [src_data : Buffers, src_width : 0..MaxDim, src_height : 0..MaxDim],
                 res : {<<>>}]

NextBits == CallRotate \/ RotateAgain \/ CallFlip

SpecBits == InitBits /\ [][NextBits]_vars

----------------------------------------------------------------------------
(* dithering.rgb_to_grayscale_fast on one pixel.                            *)

\* ndarray.astype(np.uint8) of a non-negative integer: the low eight bits
AsUint8(value) == value % 256

\* rgb_to_grayscale_fast: the sum in uint32, shifted right by 8, narrowed
RgbToGrayscaleFast(r, g, b) == AsUint8((r * 77 + g * 151 + b * 30) \div 256)

\* the channel values: the extremes, their neighbours and the middle
ChannelValues == {0, 1, 127, 128, 254, 255}

CallGray ==
    /\ last.op = "input"
    /\ last' = [op |-> "gray", req |-> last.req,
                res |-> RgbToGrayscaleFast(last.req.r, last.req.g, last.req.b)]
    /\ UNCHANGED <<sam, max_size, persist_path, cache, temp_files, files, snapshot, src_mtime,
                   next_tmp, th, phase>>

InitGray ==
    /\ NoCache
    /\ last \in [op : {"input"}, req : [r : ChannelValues, g : ChannelValues, b : ChannelValues],
                 res : {0}]

NextGray == CallGray

SpecGray == InitGray /\ [][NextGray]_vars

----------------------------------------------------------------------------
(* Display._update_dimensions and Display._display_raw.  The buffer is      *)
(* modelled by its length, the only thing _display_raw looks at.            *)

\* the class attributes WIDTH, HEIGHT, ARRAY_SIZE
DefaultWidth == 128
DefaultHeight == 250
DefaultArraySize == (DefaultWidth * DefaultHeight) \div 8

\* what display_get_dimensions gives: a size, or a failure of the call
ReportedDimensions ==
    [ok : {TRUE}, width : 1..MaxDim, height : 1..MaxDim]
    \cup {[ok |-> FALSE, width |-> 0, height |-> 0]}

\* _update_dimensions: the instance's WIDTH, HEIGHT, ARRAY_SIZE
UpdateDimensions(reported) ==
    IF reported.ok
    THEN [WIDTH |-> reported.width, HEIGHT |-> reported.height,
          ARRAY_SIZE |-> (reported.width * reported.height) \div 8]
    ELSE [WIDTH |-> DefaultWidth, HEIGHT |-> DefaultHeight, ARRAY_SIZE |-> DefaultArraySize]

\* _display_raw: "DisplayError" or the call of display_image_raw
DisplayRaw(self, data_len) ==
    IF data_len # self.ARRAY_SIZE THEN "DisplayError" ELSE "display_image_raw"

\* the lengths of the buffers handed to _display_raw
DataLengths == 0..MaxBytes \cup {DefaultArraySize}

\* initialize(): the dimensions are read from the driver
CallUpdateDimensions ==
    /\ last.op = "input"
    /\ last' = [op |-> "update_dimensions", req |-> last.req,
                res |-> [self |-> UpdateDimensions(last.req.reported), out |-> ""]]
    /\ UNCHANGED <<sam, max_size, persist_path, cache, temp_files, files, snapshot, src_mtime,
                   next_tmp, th, phase>>

CallDisplayRaw ==
    /\ last.op = "update_dimensions"
    /\ last' = [op |-> "display_raw", req |-> last.req,
                res |-> [self |-> last.res.self,
                         out |-> DisplayRaw(last.res.self, last.req.data_len)]]
    /\ UNCHANGED <<sam, max_size, persist_path, cache, temp_files, files, snapshot, src_mtime,
                   next_tmp, th, phase>>

InitRaw ==
    /\ NoCache
    /\ last \in [op : {"input"}, req : [reported : ReportedDimensions, data_len : DataLengths],
                 res : {<<>>}]

NextRaw == CallUpdateDimensions \/ CallDisplayRaw

SpecRaw == InitRaw /\ [][NextRaw]_vars

----------------------------------------------------------------------------
(* Display._scale_image with ScalingMethod.LETTERBOX.  A scale factor is a  *)
(* fraction [num, den]; for the sizes used here the float products of the   *)
(* code are the exact ones.  An image is [err, width, height, pixels], a     *)
(* pixel being "white" (the background) or "scaled" (pasted content).       *)

\* min(scale_w, scale_h) of scale_w = target_width / orig_width and
\* scale_h = target_height / orig_height
MinScale(orig_width, orig_height, target_width, target_height) ==
    IF target_width * orig_height <= target_height * orig_width
    THEN [num |-> target_width, den |-> orig_width]
    ELSE [num |-> target_height, den |-> orig_height]

\* int(side * scale)
ScaledSide(side, scale) == (side * scale.num) \div scale.den

\* Image.resize: Pillow refuses a size with a side below 1
ResizeRaises(new_width, new_height) == new_width < 1 \/ new_height < 1

\* Image.new('RGB', (target_width, target_height), 'white') and
\* result.paste(scaled_img, (paste_x, paste_y))
Pasted(target_width, target_height, new_width, new_height, paste_x, paste_y) ==
    [p \in (0..(target_width - 1)) \X (0..(target_height - 1)) |->
        IF /\ p[1] >= paste_x /\ p[1] < paste_x + new_width
           /\ p[2] >= paste_y /\ p[2] < paste_y + new_height
        THEN "scaled" ELSE "white"]

\* the LETTERBOX branch of _scale_image
ScaleImageLetterbox(orig_width, orig_height, target_width, target_height) ==
    LET scale == MinScale(orig_width, orig_height, target_width, target_height)
        new_width == ScaledSide(orig_width, scale)
        new_height == ScaledSide(orig_height, scale)
        paste_x == (target_width - new_width) \div 2
        paste_y == (target_height - new_height) \div 2
    IN IF ResizeRaises(new_width, new_height)
       THEN [err |-> "ValueError", new_width |-> new_width, new_height |-> new_height,
             paste_x |-> 0, paste_y |-> 0, width |-> 0, height |-> 0, pixels |-> <<>>]
       ELSE [err |-> "", new_width |-> new_width, new_height |-> new_height,
             paste_x |-> paste_x, paste_y |-> paste_y,
             width |-> target_width, height |-> target_height,
             pixels |-> Pasted(target_width, target_height, new_width, new_height,
                               paste_x, paste_y)]

CallScaleImage ==
    /\ last.op = "input"
    /\ last' = [op |-> "scale_image", req |-> last.req,
                res |-> ScaleImageLetterbox(last.req.orig_width, last.req.orig_height,
                                            last.req.target_width, last.req.target_height)]
    /\ UNCHANGED <<sam, max_size, persist_path, cache, temp_files, files, snapshot, src_mtime,
                   next_tmp, th, phase>>

InitScale ==
    /\ NoCache
    /\ last \in [op : {"input"},
                 req : [orig_width : 1..MaxSide, orig_height : 1..MaxSide,
                        target_width : 1..MaxSide, target_height : 1..MaxSide],
                 res : {<<>>}]

NextScale == CallScaleImage

SpecScale == InitScale /\ [][NextScale]_vars

----------------------------------------------------------------------------
(* SAM: button callbacks.  A line on the serial line is [kind, state]: a    *)
(* button state (an integer) or the LED task's completion message.          *)

\* the order in which ButtonType is iterated
ButtonOrder == <<"BTN_UP", "BTN_DOWN", "BTN_SELECT", "SHUT_DOWN">>

\* the buttons and callbacks the callers use, and the states the module sends
UsedButtons == {"BTN_UP", "BTN_DOWN"}
Callbacks == {"cb1", "cb2"}
ButtonStates == 0..3

StateLine(state) == [kind |-> "state", state |-> state]
CompletedLine == [kind |-> "completed", state |-> 0]

\* state & mask, for a mask of one bit
BitSet(state, mask) == (state \div mask) % 2 = 1

\* list.remove(callback): the first occurrence
RECURSIVE ListRemove(_, _)
ListRemove(list, callback) ==
    IF list = <<>> THEN <<>>
    ELSE IF Head(list) = callback THEN Tail(list)
    ELSE <<Head(list)>> \o ListRemove(Tail(list), callback)

InList(list, callback) == \E i \in 1..Len(list) : list[i] = callback

\* the callbacks _process_button_state_xor calls for a state, in order: for
\* each button whose bit changed, its press callbacks when the bit is now
\* set, its release callbacks otherwise
RECURSIVE CalledFrom(_, _, _)
CalledFrom(s, state, i) ==
    IF i > Len(ButtonOrder) THEN <<>>
    ELSE LET button_type == ButtonOrder[i]
             mask == ButtonStateMap[button_type]
             changed == BitSet(s.previous_button_state, mask) # BitSet(state, mask)
         IN (IF ~changed THEN <<>>
             ELSE IF BitSet(state, mask) THEN s.button_press_callbacks[button_type]
             ELSE s.button_release_callbacks[button_type])
            \o CalledFrom(s, state, i + 1)

\* register_button_callback
RegisterButtonCallback(button, callback) ==
    /\ Len(sam.button_callbacks[button]) < MaxCallbacks
    /\ sam' = [sam EXCEPT !.button_callbacks[button] = Append(@, callback)]
    /\ last' = [op |-> "register", req |-> [button |-> button, callback |-> callback],
                res |-> <<>>]
    /\ UNCHANGED <<max_size, persist_path, cache, temp_files, files, snapshot, src_mtime,
                   next_tmp, th, phase>>

\* unregister_button_callback: res is <<"True">> or <<"False">>
UnregisterButtonCallback(button, callback) ==
    /\ IF InList(sam.button_callbacks[button], callback)
       THEN /\ sam' = [sam EXCEPT !.button_callbacks[button] = ListRemove(@, callback)]
            /\ last' = [op |-> "unregister",
                        req |-> [button |-> button, callback |-> callback], res |-> <<"True">>]
       ELSE /\ sam' = sam
            /\ last' = [op |-> "unregister",
                        req |-> [button |-> button, callback |-> callback], res |-> <<"False">>]
    /\ UNCHANGED <<max_size, persist_path, cache, temp_files, files, snapshot, src_mtime,
                   next_tmp, th, phase>>

\* register_button_press_callback
RegisterButtonPressCallback(button, callback) ==
    /\ Len(sam.button_press_callbacks[button]) < 1
    /\ sam' = [sam EXCEPT !.button_press_callbacks[button] = Append(@, callback)]
    /\ last' = [op |-> "register_press", req |-> [button |-> button, callback |-> callback],
                res |-> <<>>]
    /\ UNCHANGED <<max_size, persist_path, cache, temp_files, files, snapshot, src_mtime,
                   next_tmp, th, phase>>

\* the module sends a line; the reader takes each line before the next comes
ModuleSends(line) ==
    /\ sam.in_waiting = <<>>
    /\ sam' = [sam EXCEPT !.in_waiting = Append(@, line)]
    /\ last' = [op |-> "sent", req |-> line, res |-> <<>>]
    /\ UNCHANGED <<max_size, persist_path, cache, temp_files, files, snapshot, src_mtime,
                   next_tmp, th, phase>>

\* _read_serial takes a button-state line: _process_button_state_xor; res is
\* the sequence of callbacks it has called
ReadButtonState ==
    /\ sam.in_waiting # <<>>
    /\ Head(sam.in_waiting).kind = "state"
    /\ LET state == Head(sam.in_waiting).state
       IN /\ last' = [op |-> "button_state", req |-> Head(sam.in_waiting),
                      res |-> CalledFrom(sam, state, 1)]
          /\ sam' = [sam EXCEPT !.in_waiting = Tail(@), !.previous_button_state = state]
    /\ UNCHANGED <<max_size, persist_path, cache, temp_files, files, snapshot, src_mtime,
                   next_tmp, th, phase>>

InitButtons ==
    /\ NoCache
    /\ last = [op |-> "", req |-> <<>>, res |-> <<>>]

NextButtons ==
    \/ \E button \in UsedButtons, callback \in Callbacks :
          \/ RegisterButtonCallback(button, callback)
          \/ UnregisterButtonCallback(button, callback)
    \/ RegisterButtonPressCallback("BTN_UP", "cb1")
    \/ \E state \in ButtonStates : ModuleSends(StateLine(state))
    \/ ReadButtonState

SpecButtons == InitButtons /\ [][NextButtons]_vars

----------------------------------------------------------------------------
(* Display.display_image and Display._display_png: the transforms and the   *)
(* hand-over to the driver.  A request is [kind, data, src_width,           *)
(* src_height, flip_horizontal, rotate, invert_colors, array_size]; for a   *)
(* PNG file data is what convert_png_to_raw returns for it.                 *)

\* src_width / src_height not given
NoDim == -1

\* invert_bitpacked_colors
InvertBitpackedColors(src_data) == [i \in 1..Len(src_data) |-> 255 - src_data[i]]

\* the transforms applied rotation first
ApplyTransformsRotateFirst(raw_data, width, height, flip_horizontal, rotate, invert_colors) ==
    LET rotated == IF rotate THEN RotateBitpackedCcw90(raw_data, width, height)
                   ELSE [err |-> "", data |-> raw_data, width |-> width, height |-> height]
        flipped == IF rotated.err = "" /\ flip_horizontal
                   THEN FlipBitpackedHorizontal(rotated.data, width, height)
                   ELSE rotated
    IN IF flipped.err # "" THEN [err |-> flipped.err, data |-> <<>>]
       ELSE [err |-> "",
             data |-> IF invert_colors THEN InvertBitpackedColors(flipped.data)
                      ELSE flipped.data]

\* the three if statements: flip, rotate, invert
ApplyTransforms(raw_data, width, height, flip_horizontal, rotate, invert_colors) ==
    LET flipped == IF flip_horizontal THEN FlipBitpackedHorizontal(raw_data, width, height)
                   ELSE [err |-> "", data |-> raw_data, width |-> width, height |-> height]
        rotated == IF flipped.err = "" /\ rotate
                   THEN RotateBitpackedCcw90(flipped.data, width, height)
                   ELSE flipped
    IN IF rotated.err # "" THEN [err |-> rotated.err, data |-> <<>>]
       ELSE [err |-> "",
             data |-> IF invert_colors THEN InvertBitpackedColors(rotated.data)
                      ELSE rotated.data]

\* _display_raw with the buffer itself: what the driver is handed
HandToDriver(data, array_size) ==
    IF Len(data) # array_size THEN [out |-> "DisplayError", handed |-> <<>>]
    ELSE [out |-> "display_image_raw", handed |-> data]

\* display_image for an initialized display and a valid, existing path
DisplayImage(req) ==
    LET any == req.flip_horizontal \/ req.rotate \/ req.invert_colors
    IN IF req.kind = "png"
       THEN IF any
            THEN LET t == ApplyTransforms(req.data, PngWidth, PngHeight, req.flip_horizontal,
                                          req.rotate, req.invert_colors)
                 IN IF t.err # "" THEN [out |-> t.err, handed |-> <<>>]
                    ELSE HandToDriver(t.data, req.array_size)
            ELSE [out |-> "display_image_png", handed |-> <<>>]
       ELSE IF any
            THEN IF req.src_width = NoDim \/ req.src_height = NoDim
                 THEN [out |-> "DisplayError", handed |-> <<>>]
                 ELSE LET t == ApplyTransforms(req.data, req.src_width, req.src_height,
                                               req.flip_horizontal, req.rotate,
                                               req.invert_colors)
                      IN IF t.err # "" THEN [out |-> t.err, handed |-> <<>>]
                         ELSE HandToDriver(t.data, req.array_size)
            ELSE HandToDriver(req.data, req.array_size)

CallDisplayImage ==
    /\ last.op = "input"
    /\ last' = [op |-> "display_image", req |-> last.req, res |-> DisplayImage(last.req)]
    /\ UNCHANGED <<max_size, persist_path, cache, temp_files, files, snapshot, src_mtime,
                   next_tmp, th, phase, sam>>

\* raw buffers with any source size, given or not, and PNG files, whose
\* converted data has the display's size
InitImage ==
    /\ NoCache
    /\ \E data \in Buffers, array_size \in 1..MaxBytes,
          flip_horizontal \in BOOLEAN, rotate \in BOOLEAN, invert_colors \in BOOLEAN :
          \E kind \in {"raw", "png"}, dims \in ((1..MaxDim) \X (1..MaxDim)) \cup {<<NoDim, NoDim>>} :
             /\ kind = "png" => (dims = <<NoDim, NoDim>> /\ Len(data) = array_size)
             /\ last = [op |-> "input",
                        req |-> [kind |-> kind, data |-> data, src_width |-> dims[1],
                                 src_height |-> dims[2], flip_horizontal |-> flip_horizontal,
                                 rotate |-> rotate, invert_colors |-> invert_colors,
                                 array_size |-> array_size],
                        res |-> <<>>]

NextImage == CallDisplayImage

SpecImage == InitImage /\ [][NextImage]_vars

----------------------------------------------------------------------------
(* dithering: the four error-diffusion functions, one pixel per step.  The  *)
(* working buffer is a matrix (sequence of rows) of int16 values; k is the  *)
(* number of pixels already quantised, in row-major order.                  *)

Algorithms == {"floyd_steinberg", "sierra", "sierra_2row", "sierra_lite"}

\* a store into an np.int16 array or scalar: two's complement wrap
AsInt16(value) == ((value + 32768) % 65536) - 32768

\* a shift that rounds towards zero
ShiftRightTruncating(value, n) ==
    IF value >= 0 THEN value \div Pow2(n) ELSE -((-value) \div Pow2(n))

\* value >> n on a signed integer: arithmetic shift, the floor
ShiftRight(value, n) == value \div Pow2(n)

\* a kernel that also gives a share to the pixel on the left
KernelWithLeft(alg) == <<<<-1, 0, 1>>, <<1, 0, 2>>, <<0, 1, 1>>>>

\* the neighbours <<dx, dy, weight>> in the order of the statements
Kernel(alg) ==
    CASE alg = "floyd_steinberg" ->
            <<<<1, 0, 7>>, <<-1, 1, 3>>, <<0, 1, 5>>, <<1, 1, 1>>>>
      [] alg = "sierra" ->
            <<<<1, 0, 5>>, <<2, 0, 3>>,
              <<-2, 1, 2>>, <<-1, 1, 4>>, <<0, 1, 5>>, <<1, 1, 4>>, <<2, 1, 2>>,
              <<-1, 2, 2>>, <<0, 2, 3>>, <<1, 2, 2>>>>
      [] alg = "sierra_2row" ->
            <<<<1, 0, 4>>, <<2, 0, 3>>,
              <<-2, 1, 1>>, <<-1, 1, 2>>, <<0, 1, 3>>, <<1, 1, 2>>, <<2, 1, 1>>>>
      [] OTHER ->
            <<<<1, 0, 2>>, <<-1, 1, 1>>, <<0, 1, 1>>>>

\* the shift of the shares: >> 4, >> 5, >> 4, >> 2
KernelShift(alg) ==
    CASE alg = "floyd_steinberg" -> 4 [] alg = "sierra" -> 5
      [] alg = "sierra_2row" -> 4 [] OTHER -> 2

\* new_pixel = 255 if old_pixel >= 127 else 0
Quantise(old_pixel) == IF old_pixel >= 127 THEN 255 ELSE 0

\* the guards of the statements: the neighbour is inside the image
InImage(x, y, width, height) == x >= 0 /\ x < width /\ y >= 0 /\ y < height

\* buffer[y + dy, x + dx] += (q_err * weight) >> shift for the kernel entries
\* from i on
RECURSIVE Distribute(_, _, _, _, _, _)
Distribute(alg, buffer, x, y, q_err, i) ==
    IF i > Len(Kernel(alg)) THEN buffer
    ELSE LET e == Kernel(alg)[i]
             nx == x + e[1]
             ny == y + e[2]
             share == ShiftRight(AsInt16(q_err * e[3]), KernelShift(alg))
         IN Distribute(alg,
                IF InImage(nx, ny, Len(buffer[1]), Len(buffer))
                THEN [buffer EXCEPT ![ny + 1][nx + 1] = AsInt16(@ + share)]
                ELSE buffer,
                x, y, q_err, i + 1)

\* the body of the two loops for pixel k = y * width + x
DitherPixel(alg, buffer, k) ==
    LET width == Len(buffer[1])
        x == k % width
        y == k \div width
        old_pixel == buffer[y + 1][x + 1]
        new_pixel == Quantise(old_pixel)
        q_err == AsInt16(old_pixel - new_pixel)
    IN Distribute(alg, [buffer EXCEPT ![y + 1][x + 1] = new_pixel], x, y, q_err, 1)

\* the dark and the light value of an input: next to the threshold, or such
\* that the shares push working values below 0 or above 255
GrayPairs == {<<126, 127>>, <<5, 130>>, <<120, 250>>}

\* buffer = gray_data.astype(np.int16)
CallDither ==
    /\ last.op = "input"
    /\ last' = [op |-> "dither", req |-> last.req,
                res |-> [buffer |-> last.req.gray_data, k |-> 0]]
    /\ UNCHANGED <<max_size, persist_path, cache, temp_files, files, snapshot, src_mtime,
                   next_tmp, th, phase, sam>>

\* one iteration of the inner loop
DitherStep ==
    /\ last.op = "dither"
    /\ last.res.k < Len(last.res.buffer) * Len(last.res.buffer[1])
    /\ last' = [last EXCEPT !.res = [buffer |-> DitherPixel(last.req.alg, @.buffer, @.k),
                                     k |-> @.k + 1]]
    /\ UNCHANGED <<max_size, persist_path, cache, temp_files, files, snapshot, src_mtime,
                   next_tmp, th, phase, sam>>

\* return buffer.astype(np.uint8)
DitherReturn ==
    /\ last.op = "dither"
    /\ last.res.k = Len(last.res.buffer) * Len(last.res.buffer[1])
    /\ last' = [op |-> "dithered", req |-> last.req,
                res |-> [buffer |-> [y \in 1..Len(last.res.buffer) |->
                                        [x \in 1..Len(last.res.buffer[1]) |->
                                            last.res.buffer[y][x] % 256]],
                         k |-> last.res.k]]
    /\ UNCHANGED <<max_size, persist_path, cache, temp_files, files, snapshot, src_mtime,
                   next_tmp, th, phase, sam>>

InitDither ==
    /\ NoCache
    /\ \E h \in 1..MaxDim, w \in 1..MaxDim, pair \in GrayPairs, alg \in Algorithms :
          /\ h * w <= MaxPixels
          /\ \E pattern \in [1..h -> [1..w -> {0, 1}]] :
                last = [op |-> "input",
                        req |-> [alg |-> alg, gray_data |-> Matrix(h, w, pattern, pair)],
                        res |-> <<>>]

NextDither == CallDither \/ DitherStep \/ DitherReturn

SpecDither == InitDither /\ [][NextDither]_vars

----------------------------------------------------------------------------
(* Display.display_png_auto (lines 1158-1178): _convert_png_auto, the      *)
(* display call, then the cleanup in the finally block.  The cache's get   *)
(* and put run inside with self._lock, so each is one step that waits for  *)
(* the lock; the cleanup holds no lock and is one step per statement.      *)

\* a test that never finds the path among the file references
TempFileReferencedNever(tf, temp_path) == FALSE

\* line 1174: temp_path in Display._cache_manager._temp_files.values()
TempFileReferenced(tf, temp_path) == temp_path \in Values(tf)

\* some entry of the index holds the path
IndexReferences(c, temp_path) == \E i \in 1..Len(c) : c[i].entry.temp_path = temp_path

\* lines 1160 and 954-960: the cache is asked; a hit returns the cached path
AutoBegin(t, req) ==
    /\ phase = "ready"
    /\ th[t].pc = "idle"
    /\ LockFree
    /\ \E r \in {CacheGet(cache, temp_files, files, GenerateCacheKey(req))} :
          /\ cache' = r.cache
          /\ temp_files' = r.temp_files
          /\ IF r.res # None
             THEN /\ th' = [th EXCEPT ![t] = [pc |-> "auto_display", req |-> req, via |-> "",
                                              tmp |-> r.res, made |-> {}]]
                  /\ last' = Returned("convert_hit", req, r.res)
             ELSE /\ th' = [th EXCEPT ![t] = [pc |-> "auto_convert", req |-> req, via |-> "",
                                              tmp |-> None, made |-> {}]]
                  /\ last' = Did("convert_miss")
    /\ UNCHANGED <<sam, max_size, persist_path, files, snapshot, src_mtime, next_tmp, phase>>

\* lines 964-990: the image is converted and saved to a file made by
\* tempfile.mkstemp; when that fails temp_path of display_png_auto stays None
\* and the finally block has nothing to clean up
AutoConvert(t, converted) ==
    /\ th[t].pc = "auto_convert"
    /\ IF converted
       THEN /\ next_tmp < MaxTmp
            /\ LET tmp == MkstempName(next_tmp + 1)
               IN /\ files' = files \cup {tmp}
                  /\ th' = [th EXCEPT ![t] = [@ EXCEPT !.pc = "auto_store", !.tmp = tmp]]
            /\ next_tmp' = next_tmp + 1
            /\ last' = Did("mkstemp")
       ELSE /\ Fails(t)
            /\ UNCHANGED <<files, next_tmp>>
    /\ UNCHANGED <<sam, max_size, persist_path, cache, temp_files, snapshot, src_mtime, phase>>

\* lines 992-1000: the file is put into the cache and its path returned; an
\* error in put unlinks the file and display_png_auto raises
AutoStore(t) ==
    /\ th[t].pc = "auto_store"
    /\ LockFree
    /\ \E r \in {CachePut(cache, temp_files, files, snapshot, th[t].req, th[t].tmp, "written")} :
          /\ cache' = r.cache
          /\ temp_files' = r.temp_files
          /\ snapshot' = r.snapshot
          /\ IF r.err = ""
             THEN /\ files' = r.files
                  /\ th' = [th EXCEPT ![t] = [@ EXCEPT !.pc = "auto_display"]]
                  /\ last' = Returned("convert_ok", th[t].req, th[t].tmp)
             ELSE /\ files' = Unlink(r.files, th[t].tmp)
                  /\ Fails(t)
    /\ UNCHANGED <<sam, max_size, persist_path, src_mtime, next_tmp, phase>>

\* lines 1163-1172: the image is displayed, or the display raises; the finally
\* block goes on when cleanup_temp is set and the file exists
AutoDisplay(t, cleanup_temp) ==
    /\ th[t].pc = "auto_display"
    /\ th' = IF cleanup_temp /\ th[t].tmp \in files
             THEN [th EXCEPT ![t] = [@ EXCEPT !.pc = "auto_check"]]
             ELSE [th EXCEPT ![t] = Idle]
    /\ last' = Did("display")
    /\ UNCHANGED <<sam, max_size, persist_path, cache, temp_files, files, snapshot, src_mtime,
                   next_tmp, phase>>

\* line 1174: the file references are read, no lock held
AutoCheck(t) ==
    /\ th[t].pc = "auto_check"
    /\ th' = IF TempFileReferenced(temp_files, th[t].tmp)
             THEN [th EXCEPT ![t] = Idle]
             ELSE [th EXCEPT ![t] = [@ EXCEPT !.pc = "auto_unlink"]]
    /\ last' = Did("cleanup_check")
    /\ UNCHANGED <<sam, max_size, persist_path, cache, temp_files, files, snapshot, src_mtime,
                   next_tmp, phase>>

\* lines 1175-1178: os.unlink, an OSError ignored
AutoUnlink(t) ==
    /\ th[t].pc = "auto_unlink"
    /\ files' = Unlink(files, th[t].tmp)
    /\ th' = [th EXCEPT ![t] = Idle]
    /\ last' = Returned("cleanup_unlink", th[t].req, th[t].tmp)
    /\ UNCHANGED <<sam, max_size, persist_path, cache, temp_files, snapshot, src_mtime,
                   next_tmp, phase>>

\* display_png_auto in two threads, next to put and clear called by either
InitAuto == InitWith(1..MaxSize, {None})

NextAuto ==
    \/ \E t \in Threads, req \in LockRequests : AutoBegin(t, req)
    \/ \E t \in Threads, converted \in BOOLEAN : AutoConvert(t, converted)
    \/ \E t \in Threads : AutoStore(t)
    \/ \E t \in Threads, cleanup_temp \in BOOLEAN : AutoDisplay(t, cleanup_temp)
    \/ \E t \in Threads : AutoCheck(t)
    \/ \E t \in Threads : AutoUnlink(t)
    \/ \E t \in Threads, req \in LockRequests : CallPut(t, req)
    \/ \E t \in Threads : CallCache(t, "clear_wait")
    \/ \E t \in Threads : PutAcquire(t)
    \/ \E t \in Threads : PutEvict(t)
    \/ \E t \in Threads : RemoveRef(t)
    \/ \E t \in Threads : PutIndex(t)
    \/ \E t \in Threads : PutRef(t)
    \/ \E t \in Threads : ClearAcquire(t)
    \/ \E t \in Threads : ClearStep(t)

SpecAuto == InitAuto /\ [][NextAuto]_vars

----------------------------------------------------------------------------
(* The LED task of SAM.  sam.led_task_running is _led_task_running,         *)
(* sam.led_task_completed is whether the Event _led_task_completed is set,  *)
(* sam.in_flight the NeoPixel commands written to the serial port that the  *)
(* module has not completed.  Each caller is a thread in set_led_sequence,  *)
(* one step per statement that reads or writes the two flags; the reader is *)
(* the thread of _read_serial.  No lock is taken anywhere in these methods. *)

NoCacheVars == <<max_size, persist_path, cache, temp_files, files, snapshot, src_mtime,
                 next_tmp, th, phase>>

LedReturn(c, op, res) ==
    [op |-> op, req |-> c, res |-> res]

LedAt(c, pc) == [sam EXCEPT !.pc[c] = pc]

\* set_led_sequence is called (line 330: the serial port is open)
CallSetLedSequence(c, wait_for_completion) ==
    /\ sam.pc[c] = "idle"
    /\ sam' = [sam EXCEPT !.pc[c] = "test", !.wait[c] = wait_for_completion]
    /\ last' = LedReturn(c, "call_set_led_sequence", wait_for_completion)
    /\ UNCHANGED NoCacheVars

\* lines 334-341: a running task makes the call wait or return False
TestRunning(c) ==
    /\ sam.pc[c] = "test"
    /\ IF ~sam.led_task_running
       THEN /\ sam' = LedAt(c, "clear")
            /\ last' = LedReturn(c, "test", FALSE)
       ELSE IF sam.wait[c]
       THEN /\ sam' = LedAt(c, "wait_previous")
            /\ last' = LedReturn(c, "test", TRUE)
       ELSE /\ sam' = LedAt(c, "idle")
            /\ last' = LedReturn(c, "set_led_sequence", FALSE)
    /\ UNCHANGED NoCacheVars

\* lines 336 and 369: Event.wait returns True once the event is set
WaitReturns(c) ==
    /\ sam.pc[c] \in {"wait_previous", "wait_done"}
    /\ sam.led_task_completed
    /\ IF sam.pc[c] = "wait_previous"
       THEN /\ sam' = LedAt(c, "clear")
            /\ last' = LedReturn(c, "waited", TRUE)
       ELSE /\ sam' = LedAt(c, "idle")
            /\ last' = LedReturn(c, "set_led_sequence", TRUE)
    /\ UNCHANGED NoCacheVars

\* lines 336-338 and 369-371: the wait times out, the call returns False
WaitTimesOut(c) ==
    /\ sam.pc[c] \in {"wait_previous", "wait_done"}
    /\ ~sam.led_task_completed
    /\ sam' = LedAt(c, "idle")
    /\ last' = LedReturn(c, "set_led_sequence", FALSE)
    /\ UNCHANGED NoCacheVars

\* line 344: self._led_task_completed.clear()
ClearCompleted(c) ==
    /\ sam.pc[c] = "clear"
    /\ sam' = [sam EXCEPT !.pc[c] = "mark", !.led_task_completed = FALSE]
    /\ last' = LedReturn(c, "clear", FALSE)
    /\ UNCHANGED NoCacheVars

\* line 345: self._led_task_running = True
MarkRunning(c) ==
    /\ sam.pc[c] = "mark"
    /\ sam' = [sam EXCEPT !.pc[c] = "write", !.led_task_running = TRUE]
    /\ last' = LedReturn(c, "mark", TRUE)
    /\ UNCHANGED NoCacheVars

\* lines 362-372: the command is written; written is FALSE when the write
\* raises
WriteCommand(c, written) ==
    /\ sam.pc[c] = "write"
    /\ IF written
       THEN /\ sam.in_flight < MaxTasks
            /\ sam' = [sam EXCEPT !.in_flight = @ + 1,
                                  !.pc[c] = IF sam.wait[c] THEN "wait_done" ELSE "idle"]
            /\ last' = LedReturn(c, IF sam.wait[c] THEN "write" ELSE "set_led_sequence", TRUE)
       ELSE /\ sam' = LedAt(c, "except")
            /\ last' = LedReturn(c, "write", FALSE)
    /\ UNCHANGED NoCacheVars

\* line 376: self._led_task_running = False
ExceptResetRunning(c) ==
    /\ sam.pc[c] = "except"
    /\ sam' = [sam EXCEPT !.pc[c] = "except_set", !.led_task_running = FALSE]
    /\ last' = LedReturn(c, "except", FALSE)
    /\ UNCHANGED NoCacheVars

\* lines 377-378: self._led_task_completed.set(), return False
ExceptSetCompleted(c) ==
    /\ sam.pc[c] = "except_set"
    /\ sam' = [sam EXCEPT !.pc[c] = "idle", !.led_task_completed = TRUE]
    /\ last' = LedReturn(c, "set_led_sequence", FALSE)
    /\ UNCHANGED NoCacheVars

\* is_led_task_running
IsLedTaskRunning(c) ==
    /\ sam.pc[c] = "idle"
    /\ last' = LedReturn(c, "is_led_task_running", sam.led_task_running)
    /\ UNCHANGED sam
    /\ UNCHANGED NoCacheVars

\* wait_for_led_task_completion: True when the event is set, False when the
\* wait times out
WaitForLedTaskCompletion(c) ==
    /\ sam.pc[c] = "idle"
    /\ last' = LedReturn(c, "wait_for_led_task_completion", sam.led_task_completed)
    /\ UNCHANGED sam
    /\ UNCHANGED NoCacheVars

\* the module finishes a task and sends "[Task] Neopixel Completed"
ModuleCompletesTask ==
    /\ sam.in_flight > 0
    /\ sam.in_waiting = <<>>
    /\ sam' = [sam EXCEPT !.in_flight = @ - 1, !.in_waiting = <<CompletedLine>>]
    /\ last' = LedReturn("module", "completed", TRUE)
    /\ UNCHANGED NoCacheVars

\* _read_serial, lines 115-147: the line is read; self._led_task_running = False
ReaderResetRunning ==
    /\ sam.reader = "idle"
    /\ sam.in_waiting # <<>>
    /\ Head(sam.in_waiting) = CompletedLine
    /\ sam' = [sam EXCEPT !.in_waiting = Tail(@), !.led_task_running = FALSE,
                          !.reader = "set"]
    /\ last' = LedReturn("reader", "reset", FALSE)
    /\ UNCHANGED NoCacheVars

\* line 148: self._led_task_completed.set()
ReaderSetCompleted ==
    /\ sam.reader = "set"
    /\ sam' = [sam EXCEPT !.led_task_completed = TRUE, !.reader = "idle"]
    /\ last' = LedReturn("reader", "set", TRUE)
    /\ UNCHANGED NoCacheVars

InitLed ==
    /\ NoCache
    /\ last = LedReturn("", "", FALSE)

NextLed ==
    \/ \E c \in Callers, wait_for_completion \in BOOLEAN :
          CallSetLedSequence(c, wait_for_completion)
    \/ \E c \in Callers : TestRunning(c)
    \/ \E c \in Callers : WaitReturns(c)
    \/ \E c \in Callers : WaitTimesOut(c)
    \/ \E c \in Callers : ClearCompleted(c)
    \/ \E c \in Callers : MarkRunning(c)
    \/ \E c \in Callers, written \in BOOLEAN : WriteCommand(c, written)
    \/ \E c \in Callers : ExceptResetRunning(c)
    \/ \E c \in Callers : ExceptSetCompleted(c)
    \/ \E c \in Callers : IsLedTaskRunning(c)
    \/ \E c \in Callers : WaitForLedTaskCompletion(c)
    \/ ModuleCompletesTask
    \/ ReaderResetRunning
    \/ ReaderSetCompleted

SpecLed == InitLed /\ [][NextLed]_vars

----------------------------------------------------------------------------
(* A cache constructed from a snapshot that an earlier process wrote, with  *)
(* any max_size, and then put into.                                         *)

InitReload == InitLoad

NextReload ==
    \/ Construct
    \/ \E req \in LockRequests, p \in TmpPaths : Put(req, p, TRUE, "written")

SpecReload == InitReload /\ [][NextReload]_vars

----------------------------------------------------------------------------
(* Properties *)

KeySeq(c) == [i \in 1..Len(c) |-> c[i].key]

Paths(c) == {c[i].entry.temp_path : i \in 1..Len(c)}

SeqWithout(ks, k) == SelectSeq(ks, LAMBDA x : x # k)

\* C1: a cache with max_size >= 1 never holds more than max_size entries, and a
\* put of a new fingerprint into a full cache leaves exactly max_size entries:
\* the least recently used one (the first) is gone, the others keep their order
\* and the new one is the most recently used.
C1_SizeBoundedLruEvicted ==
    /\ [](max_size >= 1 => Len(cache) <= max_size)
    /\ [][\A req \in Requests, p \in TmpPaths :
            (/\ Put(req, p, TRUE, "written")
             /\ Len(cache) = max_size
             /\ GenerateCacheKey(req) \notin Keys(cache))
            => /\ Len(cache') = max_size
               /\ KeySeq(cache') = Tail(KeySeq(cache)) \o <<GenerateCacheKey(req)>>]_vars

\* max_size + 1 puts of new temp files have been made, the cache is full and the
\* first file put is the one that is gone
C1_Witness ==
    /\ last.op = "put"
    /\ last.res = MkstempName(1)
    /\ next_tmp = max_size + 1
    /\ Len(cache) = max_size
    /\ Paths(cache) = {MkstempName(n) : n \in 2..(max_size + 1)}
    /\ MkstempName(1) \notin files

\* C2: a get that hits makes its entry the most recently used and leaves the
\* order of the others alone; a put removes entries from the least recently used
\* end only (the entries it keeps, the one it writes aside, are a suffix of the
\* order before).  So an entry read by get outlives, in the puts that follow,
\* every peer that was in the cache at the time of the get and not read since.
C2_GetPromotes ==
    [][/\ \A req \in Requests :
            (Get(req) /\ last'.op = "get_hit")
            => KeySeq(cache') = SeqWithout(KeySeq(cache), GenerateCacheKey(req))
                                  \o <<GenerateCacheKey(req)>>
       /\ \A req \in Requests, p \in TmpPaths :
            (Put(req, p, TRUE, "written") /\ last'.op = "put")
            => \E n \in 0..Len(cache) :
                  SeqWithout(KeySeq(cache'), GenerateCacheKey(req))
                  = SeqWithout(SubSeq(KeySeq(cache), n + 1, Len(cache)), GenerateCacheKey(req))
      ]_vars

\* two files were put, first eink_auto_1 then eink_auto_2, and a get has moved
\* the older entry behind the newer one
C2_Witness ==
    /\ last.op = "get_hit"
    /\ next_tmp = 2
    /\ Len(cache) = 2
    /\ cache[1].entry.temp_path = MkstempName(2)
    /\ cache[2].entry.temp_path = MkstempName(1)
    /\ last.res = MkstempName(1)

\* C6: a get for a fingerprint whose temp file is gone returns None and removes
\* that entry from the index and from the file-reference map; the other entries,
\* their paths and their order, and the files on disk, are unchanged.
C6_StaleEntryRemoved ==
    [][\A req \in Requests :
          LET key == GenerateCacheKey(req) IN
          (/\ Get(req)
           /\ HasKey(cache, key)
           /\ Lookup(cache, key).temp_path \notin files)
          => /\ last'.res = None
             /\ KeySeq(cache') = SeqWithout(KeySeq(cache), key)
             /\ \A k \in Keys(cache') : Lookup(cache', k) = Lookup(cache, k)
             /\ DOMAIN temp_files' = DOMAIN temp_files \ {key}
             /\ \A k \in DOMAIN temp_files' : temp_files'[k] = temp_files[k]
             /\ files' = files]_vars

\* a get has just removed a stale entry and another entry is still there
C6_Witness ==
    /\ last.op = "get_stale"
    /\ Len(cache) >= 1
    /\ \E n \in 1..next_tmp :
          MkstempName(n) \notin files /\ MkstempName(n) \notin Values(temp_files)

\* C7: put with a temp path that is not inside the temp directory raises and
\* leaves index, file references, files and snapshot as they are; so every
\* entry of the cache has its temp path inside the temp directory.
C7_PathsInsideTempDir ==
    /\ [](\A i \in 1..Len(cache) : InsideDir(PathString(cache[i].entry.temp_path), TempDir))
    /\ [][\A req \in PathRequests, p \in AllPaths :
            (Put(req, p, FALSE, "written") /\ ~InsideDir(PathString(p), TempDir))
            => /\ last'.op = "put_raises"
               /\ UNCHANGED <<sam, cache, temp_files, files, snapshot>>]_vars

\* the number of entries put's loop removes, and the entries it leaves
Evicted(c) == IF Len(c) >= max_size THEN Len(c) - max_size + 1 ELSE 0

Kept(c) == SubSeq(c, Evicted(c) + 1, Len(c))

\* C8: a put that evicts, and clear, delete the temp file of an entry they
\* remove if and only if none of the entries that remain in the index has the
\* same temp path; every other file stays (a put that returns leaves the files
\* there were, and the file its caller has just made with mkstemp, less the
\* files of the evicted entries that no kept entry references).
C8_UnlinkUnlessShared ==
    [][/\ last'.op = "put"
          => files' = (IF next_tmp' # next_tmp
                       THEN files \cup {MkstempName(next_tmp')} ELSE files)
                      \ (Paths(SubSeq(cache, 1, Evicted(cache))) \ Paths(Kept(cache)))
       /\ last'.op = "clear" => files' = files \ Paths(cache)
      ]_vars

\* a put has evicted an entry whose temp file another entry still references:
\* the file is still on disk
C8_Witness ==
    /\ last.op = "put"
    /\ last.res # None
    /\ last.res \in files
    /\ \E i \in 1..Len(cache) : cache[i].entry.temp_path = last.res

\* C3: when a conversion request has returned a path, the same request made
\* next (nothing else happening in between) is a cache hit: it returns the same
\* path and makes no temp file.
C3_SecondRequestHits ==
    [][\A t \in Threads, via \in {"rust", "pil"} :
          (last.op \in {"convert_ok", "convert_hit"} /\ Begin(t, last.req, via))
          => /\ last'.op = "convert_hit"
             /\ last'.res = last.res
             /\ files' = files
             /\ next_tmp' = next_tmp]_vars

\* a request that was converted and stored has been made again and has hit
C3_Witness ==
    /\ last.op = "convert_hit"
    /\ next_tmp = 1
    /\ last.res = MkstempName(1)
    /\ MkstempName(1) \in files
    /\ \A t \in Threads : th[t].pc = "idle"

\* the temp files a thread inside _convert_png_auto holds
InFlight == UNION {th[t].made : t \in Threads}

\* C4: when a conversion finishes and the index already has an entry for its
\* fingerprint (whose file exists), the new temp file is discarded and the
\* entry's path is returned; no temp file is on disk without an entry or a
\* running request that holds it.
C4_ExistingEntryWins ==
    /\ [](\A p \in files \cap TmpPaths : p \in Paths(cache) \cup InFlight)
    /\ [][\A t \in Threads :
            LET key == GenerateCacheKey(th[t].req) IN
            (/\ Store(t, "written")
             /\ last'.op = "convert_ok"
             /\ HasKey(cache, key)
             /\ Lookup(cache, key).temp_path \in files)
            => /\ last'.res = Lookup(cache, key).temp_path
               /\ th[t].tmp \notin files']_vars

\* C5: when a conversion request ends in an error, no entry of the cache has a
\* temp file the request made, the request's step has added no entry, and every
\* temp file the request made is gone from the disk.
C5_ErrorLeavesNothing ==
    [][\A t \in Threads :
          (last'.op = "convert_fail" /\ th[t].pc # "idle" /\ th'[t].pc = "idle")
          => /\ th[t].made \cap files' = {}
             /\ th[t].made \cap Paths(cache') = {}
             /\ cache' = cache]_vars

\* a request has failed after making two temp files (one on the native path, one
\* on the fallback path), and none is left
C5_Witness ==
    /\ last.op = "convert_fail"
    /\ next_tmp = 2
    /\ files \cap TmpPaths = {}
    /\ cache = <<>>
    /\ \A t \in Threads : th[t].pc = "idle"

\* the snapshot holds version 1 and the entries of the index
SnapshotIsIndex(snap, c) ==
    /\ snap.state = "ok"
    /\ snap.version = 1
    /\ KeySeq(snap.entries) = KeySeq(c)
    /\ \A i \in 1..Len(c) :
          /\ snap.entries[i].entry.temp_path = c[i].entry.temp_path
          /\ snap.entries[i].entry.source_path = c[i].entry.source_path
          /\ snap.entries[i].entry.params = c[i].entry.params

ValidSnapshotEntry(e) ==
    /\ {"temp_path", "source_path", "params"} \subseteq DOMAIN e.entry
    /\ InsideDir(PathString(e.entry.temp_path), TempDir)
    /\ e.entry.temp_path \in files

\* C10: the cache constructed from a snapshot holds exactly the snapshot's
\* entries that have temp_path, source_path and params, whose temp path is
\* inside the temp directory and whose temp file exists; a snapshot of another
\* version gives an empty cache.
C10_LoadsExactlyValidEntries ==
    last.op = "construct"
    => /\ cache = IF snapshot.state = "ok" /\ snapshot.version = 1
                  THEN SelectSeq(snapshot.entries, ValidSnapshotEntry)
                  ELSE <<>>
       /\ DOMAIN temp_files = Keys(cache)

\* C11: whatever the snapshot file holds, constructing the cache does not
\* raise, and the conversion request made next for an existing image does not
\* fail: it is served from the cache or proceeds as a miss.
C11_CorruptionNeverSurfaced ==
    /\ [](phase # "failed")
    /\ [][last.op = "construct" => last'.op \in {"convert_hit", "convert_miss"}]_vars

\* the index and the file-reference map have the same keys and the same path
\* for each key
Consistent(c, tf) ==
    /\ Keys(c) = DOMAIN tf
    /\ \A i \in 1..Len(c) : tf[c[i].key] = c[i].entry.temp_path

\* C12: whenever a thread reads the cache (get_stats, or the pipeline's read of
\* the file references in display_png_auto), the index and the file-reference
\* map it can see have the same key set and the same path for each key.
C12_NoHalfUpdatedView ==
    [][last'.op \in {"get_stats", "read_temp_files"} => Consistent(cache, temp_files)]_vars

KeyNow(req) == [path |-> req.path, mtime |-> src_mtime[req.path], params |-> req.params]

\* C14 as claimed: right after the source's mtime has changed (no put made
\* since), get returns None for that path under every parameter combination;
\* and a get returns only the path of an entry stored for the request's path,
\* mtime and parameters.
C14_ChangeInvalidates ==
    [][\A req \in LockRequests :
          Get(req) =>
             /\ last.op = "write" => last'.res = None
             /\ last'.res # None
                => \E i \in 1..Len(cache) : /\ cache[i].key = KeyNow(req)
                                            /\ cache[i].entry.temp_path = last'.res]_vars

\* C14 as amended: after the source's mtime has changed, get returns None for
\* that path under every parameter combination unless the index holds an entry
\* that was put while the source had exactly the mtime it has now (its mtime
\* has gone back to an earlier value); a put stores its entry under the mtime
\* the source has at the put, and a get returns only the path of an entry
\* stored for the request's path, mtime and parameters.
C14_KeyedByMtime ==
    [][\A req \in LockRequests :
          /\ \A p \in TmpPaths :
                (Put(req, p, TRUE, "written") /\ last'.op = "put")
                => /\ \E i \in 1..Len(cache') : /\ cache'[i].key = KeyNow(req)
                                                 /\ cache'[i].entry.temp_path = p
                   /\ \A i \in 1..Len(cache') :
                         cache'[i].key # KeyNow(req)
                         => \E j \in 1..Len(cache) : cache'[i] = cache[j]
          /\ Get(req) =>
                /\ (last.op = "write" /\ \A i \in 1..Len(cache) : cache[i].key # KeyNow(req))
                   => last'.res = None
                /\ last'.res # None
                   => \E i \in 1..Len(cache) : /\ cache[i].key = KeyNow(req)
                                               /\ cache[i].entry.temp_path = last'.res]_vars

\* the source was rewritten and a get has missed, although the index holds an
\* entry for the same path under the older mtime for every parameter combination
C14_Witness ==
    /\ last.op = "get_miss"
    /\ src_mtime["a.png"] = 2
    /\ \A params \in Params :
          [path |-> "a.png", mtime |-> 1, params |-> params] \in Keys(cache)

\* the path as given, made absolute by joining it to the working directory and
\* not normalised
LiteralAbs(path) == IF path.abs THEN path.comps ELSE Cwd \o path.comps

\* C15: a path that uses ".." or "~" is accepted by _validate_path only if
\* the resolved path is the very path that was given (made absolute, component
\* for component); otherwise it raises, whether or not the path resolves to a
\* place inside an allowed directory.
C15_TraversalRejectedOutright ==
    (/\ last.op = "validate_path"
     /\ HasTraversalChars(last.req)
     /\ last.res = "ok")
    => Realpath(Expanduser(last.req)) = LiteralAbs(last.req)

\* the directory d itself or a path below it, component by component
Descendant(comps, d) == Len(comps) >= Len(d) /\ SubSeq(comps, 1, Len(d)) = d

\* C16: every path _validate_path accepts is an allowed directory or a
\* descendant of one; a path outside every allowed directory, a sibling whose
\* name begins with an allowed directory's name included, is rejected.
C16_AcceptedInsideAllowedDir ==
    (last.op = "validate_path" /\ last.res = "ok")
    => \E d \in AllowedDirs : Descendant(Abspath(last.req), d)

\* C17: for every h x w matrix pack_1bit_data returns exactly ceil(w*h/8)
\* bytes; bit 7-(i mod 8) of byte i div 8 is 1 iff pixel i = y*w+x is > 127;
\* the unused low-order bits of the last byte are zero.
C17_PackLayout ==
    last.op = "pack"
    => LET m == last.req
           h == Len(m)
           w == Len(m[1])
           out == last.res
       IN /\ Len(out) * 8 >= w * h
          /\ Len(out) * 8 < w * h + 8
          /\ \A n \in 1..Len(out) : out[n] \in 0..255
          /\ \A y \in 0..(h - 1), x \in 0..(w - 1) :
                BitAt(out, y * w + x) = 1 <=> m[y + 1][x + 1] > 127
          /\ \A i \in (w * h)..(Len(out) * 8 - 1) : BitAt(out, i) = 0

\* a 3 x 3 matrix, which needs two bytes of which the second has seven unused
\* bits, with the pixels next to the threshold: only the last pixel is light
C17_Witness ==
    /\ last.op = "pack"
    /\ last.req = <<<<127, 127, 127>>, <<127, 127, 127>>, <<127, 127, 128>>>>
    /\ last.res = <<0, 128>>

\* the source pixel (x, y) of the call
SrcPixel(x, y) == BitAt(last.req.src_data, y * last.req.src_width + x)

\* the pixel (x, y) of a result r
DstPixel(r, x, y) == BitAt(r.data, y * r.width + x)

\* C18: rotate_bitpacked_ccw_90(b, w, h) returns ceil(w*h/8) bytes describing
\* an image of width h and height w whose pixel (sy, w-1-sx) is the source
\* pixel (sx, sy); every destination pixel is the image of exactly one source
\* pixel, and the number of set pixels is preserved.
C18_RotateMapping ==
    (last.op = "rotate" /\ last.res.n = 1 /\ last.res.r.err = "")
    => LET w == last.req.src_width
           h == last.req.src_height
           r == last.res.r
           Pos(ww, hh) == (0..(ww - 1)) \X (0..(hh - 1))
       IN /\ Len(r.data) * 8 >= w * h
          /\ Len(r.data) * 8 < w * h + 8
          /\ r.width = h /\ r.height = w
          /\ \A s \in Pos(w, h) : DstPixel(r, s[2], w - 1 - s[1]) = SrcPixel(s[1], s[2])
          /\ \A d \in Pos(h, w) :
                Cardinality({s \in Pos(w, h) : <<s[2], w - 1 - s[1]>> = d}) = 1
          /\ Cardinality({s \in Pos(w, h) : SrcPixel(s[1], s[2]) = 1})
             = Cardinality({d \in Pos(h, w) : DstPixel(r, d[1], d[2]) = 1})

\* a 3 x 2 image whose only set pixel is (1, 0): it goes to (0, 1) of the
\* 2 x 3 result, which is bit 2 of the buffer
C18_Witness ==
    /\ last.op = "rotate" /\ last.res.n = 1
    /\ last.req = [src_data |-> <<64>>, src_width |-> 3, src_height |-> 2]
    /\ last.res.r = [err |-> "", data |-> <<32>>, width |-> 2, height |-> 3]

\* the well-formed packed bitmap with the pixels of b: the first ceil(w*h/8)
\* bytes of b, the unused low-order bits of the last one cleared
Canonical(b, w, h) ==
    [n \in 1..ExpectedBytes(w, h) |->
        IF n * 8 > w * h THEN b[n] - (b[n] % Pow2(n * 8 - w * h)) ELSE b[n]]

\* C19 as stated: for all (b, w, h) accepted by the rotation, four rotations
\* (the swapped width and height passed after each step) return a buffer
\* bit-identical to b, with dimensions (w, h).
C19_FourRotationsIdentity ==
    (last.op = "rotate" /\ last.res.n = 4 /\ last.res.r.err = "")
    => /\ last.res.r.data = last.req.src_data
       /\ last.res.r.width = last.req.src_width
       /\ last.res.r.height = last.req.src_height

\* C19 amended: for all (b, w, h) accepted by the rotation, four rotations
\* return the dimensions (w, h) and the first ceil(w*h/8) bytes of b with the
\* unused low-order bits of the last byte cleared; that is b itself exactly
\* when b has ceil(w*h/8) bytes and zero unused bits.
C19_FourRotationsCanonical ==
    (last.op = "rotate" /\ last.res.n = 4 /\ last.res.r.err = "")
    => /\ last.res.r.data = Canonical(last.req.src_data, last.req.src_width,
                                      last.req.src_height)
       /\ last.res.r.width = last.req.src_width
       /\ last.res.r.height = last.req.src_height

\* a 3 x 2 image in one byte whose last unused bit is set: the fourth
\* rotation returns the six pixels and clears that bit
C19_Witness ==
    /\ last.op = "rotate" /\ last.res.n = 4
    /\ last.req = [src_data |-> <<165>>, src_width |-> 3, src_height |-> 2]
    /\ last.res.r = [err |-> "", data |-> <<164>>, width |-> 3, height |-> 2]

\* C20: rotate_bitpacked_ccw_90 and flip_bitpacked_horizontal return a result
\* only when len(src_data) = ceil(w*h/8); for a shorter or a longer buffer
\* they fail with an error.
C20_LengthEnforced ==
    (last.op \in {"rotate", "flip"} /\ last.res.n = 1)
    => (last.res.r.err = ""
        <=> Len(last.req.src_data)
            = ExpectedBytes(last.req.src_width, last.req.src_height))

\* C21: for every R, G, B in 0..255 rgb_to_grayscale_fast returns exactly
\* (77*R + 151*G + 30*B) >> 8, and that value is a gray level in 0..255.
C21_LumaIsAByte ==
    last.op = "gray"
    => LET luma == (77 * last.req.r + 151 * last.req.g + 30 * last.req.b) \div 256
       IN /\ luma \in 0..255
          /\ last.res = luma

\* C22: for every display size the driver reports, display_image_raw is
\* reached only with a buffer of exactly ceil(width*height/8) bytes; a buffer
\* of any other length is rejected with an error.
C22_DriverGetsExactBuffer ==
    (last.op = "display_raw" /\ last.req.reported.ok)
    => (last.res.out = "display_image_raw"
        <=> last.req.data_len
            = ExpectedBytes(last.req.reported.width, last.req.reported.height))

\* C23: for every source size and target size the letterboxed result is
\* exactly target_w x target_h; the scaled content does not exceed the target
\* on either axis, is pasted at ((target_w - new_w) div 2, (target_h - new_h)
\* div 2), both offsets are non-negative, opposite margins differ by at most
\* one pixel, and every pixel outside the pasted rectangle is white.
C23_LetterboxCentred ==
    last.op = "scale_image"
    => LET r == last.res
           t_w == last.req.target_width
           t_h == last.req.target_height
       IN /\ r.err = ""
          /\ r.width = t_w /\ r.height = t_h
          /\ r.new_width <= t_w /\ r.new_height <= t_h
          /\ r.paste_x = (t_w - r.new_width) \div 2
          /\ r.paste_y = (t_h - r.new_height) \div 2
          /\ r.paste_x >= 0 /\ r.paste_y >= 0
          /\ (t_w - r.new_width - r.paste_x) - r.paste_x \in {0, 1}
          /\ (t_h - r.new_height - r.paste_y) - r.paste_y \in {0, 1}
          /\ DOMAIN r.pixels = (0..(t_w - 1)) \X (0..(t_h - 1))
          /\ \A p \in DOMAIN r.pixels :
                (\/ p[1] < r.paste_x \/ p[1] >= r.paste_x + r.new_width
                 \/ p[2] < r.paste_y \/ p[2] >= r.paste_y + r.new_height)
                => r.pixels[p] = "white"

\* C24: a callback registered with register_button_callback(button, cb) is
\* called each time a received button-state line shows that button going from
\* released to pressed (and no longer once unregister_button_callback has
\* removed it).
C24_RegisteredCallbackCalled ==
    [][last'.op = "button_state"
       => \A button \in UsedButtons :
             (/\ ~BitSet(sam.previous_button_state, ButtonStateMap[button])
              /\ BitSet(last'.req.state, ButtonStateMap[button]))
             => \A callback \in Callbacks :
                   InList(sam.button_callbacks[button], callback)
                   => InList(last'.res, callback)]_vars

\* the size the transforms of a request work with
TransformWidth(req) == IF req.kind = "png" THEN PngWidth ELSE req.src_width
TransformHeight(req) == IF req.kind = "png" THEN PngHeight ELSE req.src_height

\* C25: the buffer display_image hands to the driver is
\* invert(rotate(flip(b, w, h), w, h)), each transform that was not requested
\* left out, for raw buffers and for PNG files alike.
C25_FlipRotateInvert ==
    (last.op = "display_image" /\ last.res.out = "display_image_raw")
    => LET req == last.req
           w == TransformWidth(req)
           h == TransformHeight(req)
           f == IF req.flip_horizontal THEN FlipBitpackedHorizontal(req.data, w, h).data
                ELSE req.data
           r == IF req.rotate THEN RotateBitpackedCcw90(f, w, h).data ELSE f
           i == IF req.invert_colors THEN [n \in 1..Len(r) |-> 255 - r[n]] ELSE r
       IN last.res.handed = i

\* a raw 3 x 2 buffer with all three transforms: the rows 101 / 001 flipped
\* are 101 / 100, rotated 10 / 00 / 11, which is the byte 10001100, inverted
\* 01110011
C25_Witness ==
    /\ last.op = "display_image"
    /\ last.req.kind = "raw"
    /\ last.req.data = <<165>> /\ last.req.src_width = 3 /\ last.req.src_height = 2
    /\ last.req.flip_horizontal /\ last.req.rotate /\ last.req.invert_colors
    /\ last.res.out = "display_image_raw"
    /\ last.res.handed = <<115>>

\* the reference Floyd-Steinberg algorithm, pixel by pixel: the working value
\* of pixel (x, y) is its input plus the shares of the (at most four) pixels
\* visited before it that have it as a neighbour; its error is the working
\* value minus the quantised one
RECURSIVE RefWorking(_, _, _)
RefError(gray, x, y) ==
    LET v == RefWorking(gray, x, y) IN v - (IF v >= 127 THEN 255 ELSE 0)
RefWorking(gray, x, y) ==
    LET width == Len(gray[1])
        From(qx, qy, weight) ==
            IF qx >= 0 /\ qx < width /\ qy >= 0
            THEN (RefError(gray, qx, qy) * weight) \div 16 ELSE 0
    IN gray[y + 1][x + 1] + From(x - 1, y, 7) + From(x + 1, y - 1, 3)
       + From(x, y - 1, 5) + From(x - 1, y - 1, 1)

\* C26: apply_floyd_steinberg_dithering equals the reference algorithm:
\* row-major visit, new = 255 if the working value >= 127 else 0, shares
\* (err*7)>>4 right, (err*3)>>4 below-left, (err*5)>>4 below, (err*1)>>4
\* below-right with a floor shift, neighbours outside the image skipped.
C26_FloydSteinbergReference ==
    (last.op = "dithered" /\ last.req.alg = "floyd_steinberg")
    => \A y \in 1..Len(last.req.gray_data), x \in 1..Len(last.req.gray_data[1]) :
          last.res.buffer[y][x]
          = (IF RefWorking(last.req.gray_data, x - 1, y - 1) >= 127 THEN 255 ELSE 0)

\* a 3 x 3 input of 127s and 126s dithered: errors of both signs, and every
\* neighbour of the kernel inside the image for the pixel in the middle
C26_Witness ==
    /\ last.op = "dithered" /\ last.req.alg = "floyd_steinberg"
    /\ last.req.gray_data = <<<<127, 126, 127>>, <<126, 127, 126>>, <<127, 126, 127>>>>

\* the value of pixel number p (row-major, from 0) of a matrix
PixelNo(buffer, p) == buffer[(p \div Len(buffer[1])) + 1][(p % Len(buffer[1])) + 1]

\* the share the step for pixel k adds to pixel p according to the algorithm's
\* kernel, in unbounded integers
ExactShare(alg, buffer, k, p) ==
    LET width == Len(buffer[1])
        q_err == PixelNo(buffer, k) - (IF PixelNo(buffer, k) >= 127 THEN 255 ELSE 0)
        hits == {i \in 1..Len(Kernel(alg)) :
                    /\ (k % width) + Kernel(alg)[i][1] = p % width
                    /\ (k \div width) + Kernel(alg)[i][2] = p \div width}
    IN IF hits = {} THEN 0
       ELSE (q_err * Kernel(alg)[CHOOSE i \in hits : TRUE][3]) \div Pow2(KernelShift(alg))

\* C27: for each of the four algorithms diffusion is causal: the step for a
\* pixel leaves every pixel quantised before it as it is, sets the pixel to 0
\* or 255 and adds to each later pixel exactly its share, without wrapping in
\* the int16 buffer; the returned matrix is the buffer unchanged by the
\* narrowing to bytes, all of it 0 or 255.
C27_CausalAndBinary ==
    [][/\ (last.op = "dither" /\ last'.op = "dither")
          => LET k == last.res.k
                 n == Len(last.res.buffer) * Len(last.res.buffer[1])
             IN /\ \A p \in 0..(k - 1) :
                      /\ PixelNo(last'.res.buffer, p) = PixelNo(last.res.buffer, p)
                      /\ PixelNo(last.res.buffer, p) \in {0, 255}
                /\ PixelNo(last'.res.buffer, k) \in {0, 255}
                /\ \A p \in (k + 1)..(n - 1) :
                      PixelNo(last'.res.buffer, p)
                      = PixelNo(last.res.buffer, p)
                        + ExactShare(last.req.alg, last.res.buffer, k, p)
       /\ last'.op = "dithered"
          => /\ last'.res.buffer = last.res.buffer
             /\ \A p \in 0..(last.res.k - 1) : PixelNo(last'.res.buffer, p) \in {0, 255}]_vars

\* Sierra half way through a 3 x 3 image: the working value of a pixel still
\* to come has been pushed below 0 or above 255
C27_Witness ==
    /\ last.op = "dither" /\ last.req.alg = "sierra"
    /\ Len(last.res.buffer) = 3 /\ Len(last.res.buffer[1]) = 3
    /\ last.res.k \in 3..6
    /\ \E p \in last.res.k..8 : PixelNo(last.res.buffer, p) < 0 \/ PixelNo(last.res.buffer, p) > 255


\* C28: whenever the cleanup at the end of display_png_auto unlinks a file,
\* no entry of the cache's index and no file reference holds that path at
\* that moment
C28_CleanupOnlyUnreferenced ==
    [][\A t \in Threads :
          (th[t].pc = "auto_unlink" /\ th'[t].pc = "idle")
          => /\ ~IndexReferences(cache, th[t].tmp)
             /\ th[t].tmp \notin Values(temp_files)]_vars

\* the cleanup has removed its file while the cache holds another entry for the
\* same request, put by the other thread
C28_Witness ==
    /\ last.op = "cleanup_unlink"
    /\ last.res \notin files
    /\ HasKey(cache, GenerateCacheKey(last.req))
    /\ Lookup(cache, GenerateCacheKey(last.req)).temp_path \in files

\* no caller is between its test of the flag and its write of the command, or
\* in its exception handler, and the reader is not between its two statements
LedQuiescent ==
    /\ sam.reader = "idle"
    /\ \A c \in Callers : sam.pc[c] \in {"idle", "wait_previous", "wait_done"}

\* C29: at most one LED command is in flight, and whenever no thread is in
\* the middle of updating the two flags, is_led_task_running() is true
\* exactly when the completion event is clear and the event is set only when
\* no task is in flight
C29_OneLedTaskInFlight ==
    /\ sam.in_flight <= 1
    /\ LedQuiescent =>
          /\ sam.led_task_running <=> ~sam.led_task_completed
          /\ sam.led_task_completed => sam.in_flight = 0

\* C30: a constructed cache never holds more than max_size entries, and a
\* put removes at most one entry of the index
C30_SizeBoundFromConstruction ==
    /\ [](phase = "ready" => Len(cache) <= max_size)
    /\ [][next_tmp' # next_tmp
          => Cardinality(Keys(cache) \ Keys(cache')) <= 1]_vars
====
